---- MODULE Spec2Model ----
(***************************************************************************)
(* Model of the logtriage event pipeline: the store (Insert, MarkNotified, *)
(* CheckCooldown), the ntfy reporter (Report) and the pipeline driver's    *)
(* handleEvent, which runs every classified event through                  *)
(* enrich -> insert -> cooldown check -> report -> mark notified.          *)
(*                                                                         *)
(* Time is counted in hundredths of a second.  The store keeps timestamps  *)
(* as RFC3339Nano text and compares them as text, so a stored timestamp is *)
(* modelled as the sequence of character codes that follows the            *)
(* fixed-width "YYYY-MM-DDTHH:MM:SS" prefix; the prefix itself is modelled *)
(* by the number of whole seconds (fixed width, zero padded, so its text   *)
(* order is its numeric order).                                            *)
(***************************************************************************)
EXTENDS Integers, Sequences, FiniteSets, TLC

VARIABLES cfg, store, clock, nextId, faults, pc, ev, dedup, cur, posts, acked, log

\* The context of run and the record channel returned by SupervisedSource.Entries.
VARIABLES ctxDone, out, outClosed

\* The supervisor goroutine, its current session and the reader of its output.
VARIABLES maxRestarts, supPc, restarts, attempts, sessions, sess, held, supExit,
          received, delivered

\* The monitors' goroutines and channels, and the select loop of run.
VARIABLES started, monPc, monCh, sent, lost, drvIn, drvPc, sigCh, sd, handled

\* The classifier: the journal record given to it, the entry point that was
\* called and the events it returned.
VARIABLES rec, called, events

\* The enricher: the event given to Enrich, the outcomes of the external
\* queries while it runs, and what Enrich left behind.
VARIABLES given, world, enriched

\* The store called directly: its rows, the event the caller holds, the
\* events inserted with success, for each id the latest cutoff of a purge run
\* since its insert, the clock, and the last call with its result.
VARIABLES db, hand, inserted, cut, dbClock, ans

\* The PSI monitor: its thresholds, the state of poll (inPressure, the two
\* tickers with the tick waiting in their channel, whether poll still runs),
\* its event channel, its context, and what the last call of check did.
VARIABLES psiMon, inPressure, ticker, highFreqTicker, polling, psiCh, psiCtx,
          checked

\* The SMART monitor: lastStatus, where poll stands, the devices checkAll
\* still has to query, the event channel, the context, and what the last
\* iteration of checkAll's loop did.
VARIABLES lastStatus, smartPc, devices, smartCh, smartCtx, queried

\* The GPU monitor: its thresholds, where poll stands, the cards checkAll
\* still has to read, the event channel, the context, what the current
\* iteration of checkAll's loop has read and done, and what run made of the
\* last event it received.
VARIABLES gpuMon, gpuPc, cards, gpuCh, gpuCtx, polled, drvGpu

\* The digest: the events given to BuildDigest, the summary it returned and
\* the breakdowns as FormatDigest wrote them.
VARIABLES digestEvents, digest, rendered

\* The number of times run has called Purge.
VARIABLES purges

pipeVars == <<cfg, store, clock, nextId, faults, pc, ev, dedup, cur, posts, acked, log>>

chanVars == <<ctxDone, out, outClosed>>

supVars == <<maxRestarts, supPc, restarts, attempts, sessions, sess, held, supExit,
             received, delivered>>

loopVars == <<started, monPc, monCh, sent, lost, drvIn, drvPc, sigCh, sd, handled>>

clsVars == <<rec, called, events>>

enrVars == <<given, world, enriched>>

\* The parts that are called by the pipeline and studied on their own.
dbVars == <<db, hand, inserted, cut, dbClock, ans>>

psiVars == <<psiMon, inPressure, ticker, highFreqTicker, polling, psiCh, psiCtx,
             checked>>

smartVars == <<lastStatus, smartPc, devices, smartCh, smartCtx, queried>>

gpuVars == <<gpuMon, gpuPc, cards, gpuCh, gpuCtx, polled, drvGpu>>

digVars == <<digestEvents, digest, rendered>>

sideVars == <<clsVars, enrVars, dbVars, psiVars, smartVars, gpuVars, digVars, purges>>

\* Everything outside handleEvent and the store.
procVars == <<chanVars, supVars, loopVars, sideVars>>

vars == <<pipeVars, procVars>>

----------------------------------------------------------------------------
(* Bounds of the model *)

MaxEvents == 3        \* events handled by the driver in one run
MaxFaults == 1        \* database errors and failed HTTP exchanges in one run
MaxThreshold == 2     \* largest configured aggregate_threshold
Window == 200         \* configured cooldown window (2 s)
StartTime == 1000     \* capture time of the daemon's start (10 s)
MaxRows == 2          \* rows of the store a direct CheckCooldown call is tried on

Steps == {50, 125}    \* time between two consecutive events

EventIds == 1..(MaxEvents + 1)

UrlNone == ""
UrlValid == "https://ntfy.example/topic"
UrlMalformed == "http://[::1"

\* The kinds of events the driver receives: an OOM kill with and without an
\* extracted process name, and a unit failure.
EventKinds ==
  { [tier |-> "T1", process |-> "vlc", unit |-> ""],
    [tier |-> "T1", process |-> "",    unit |-> ""],
    [tier |-> "T3", process |-> "",    unit |-> "a.service"] }

NoEvent == [id |-> 0, instance_id |-> "", timestamp |-> 0, tier |-> "", process |-> "", unit |-> ""]

----------------------------------------------------------------------------
(* time.Time.Format(time.RFC3339Nano) and the text comparison of SQLite *)

\* The text of instant t after the seconds: nothing but "Z" for a whole
\* second, else "." and the fraction without its trailing zeros, then "Z".
\* 46 is ".", 48 + d is the digit d, 90 is "Z".
FormatTime(t) ==
  LET sec == t \div 100
      h == t % 100
  IN  IF h = 0 THEN <<sec, 90>>
      ELSE IF h % 10 = 0 THEN <<sec, 46, 48 + (h \div 10), 90>>
      ELSE <<sec, 46, 48 + (h \div 10), 48 + (h % 10), 90>>

\* time.Parse(time.RFC3339Nano, s): the instant a stored text denotes.
ParseTime(s) ==
  IF Len(s) = 2 THEN s[1] * 100
  ELSE IF Len(s) = 4 THEN s[1] * 100 + (s[3] - 48) * 10
  ELSE s[1] * 100 + (s[3] - 48) * 10 + (s[4] - 48)

\* a < b in the BINARY collation (memcmp, the shorter of equal prefixes first).
RECURSIVE TextLess(_, _)
TextLess(a, b) ==
  IF a = <<>> THEN b # <<>>
  ELSE IF b = <<>> THEN FALSE
  ELSE IF Head(a) # Head(b) THEN Head(a) < Head(b)
  ELSE TextLess(Tail(a), Tail(b))

\* SQL "timestamp >= ?" on the TEXT column.
TextGeq(a, b) == ~TextLess(a, b)

----------------------------------------------------------------------------
(* The store *)

\* The row Insert writes for an event: notified is FALSE.
RowOf(e) ==
  [id |-> e.id, instance_id |-> e.instance_id, timestamp |-> FormatTime(e.timestamp),
   tier |-> e.tier, process |-> e.process, unit |-> e.unit, notified |-> FALSE]

\* DB.Insert: appends a row.
Insert(s, e) == s \cup {RowOf(e)}

\* A MarkNotified that writes a row when none has the id (an upsert).
MarkNotifiedUpsert(s, id) ==
  IF \E r \in s : r.id = id
  THEN { IF r.id = id THEN [r EXCEPT !.notified = TRUE] ELSE r : r \in s }
  ELSE s \cup {[id |-> id, instance_id |-> "", timestamp |-> <<0, 90>>, tier |-> "",
                process |-> "", unit |-> "", notified |-> TRUE]}

\* DB.MarkNotified: UPDATE events SET notified = TRUE WHERE id = ?
MarkNotified(s, id) ==
  { IF r.id = id THEN [r EXCEPT !.notified = TRUE] ELSE r : r \in s }

\* The WHERE clause CheckCooldown builds for event e and window w.
CooldownMatch(r, e, w) ==
  /\ r.instance_id = e.instance_id
  /\ r.tier = e.tier
  /\ TextGeq(r.timestamp, FormatTime(e.timestamp - w))
  /\ IF e.unit # "" THEN r.unit = e.unit
     ELSE IF e.process # "" THEN r.process = e.process
     ELSE TRUE

\* SELECT COUNT(*) of CheckCooldown.
RecentCount(s, e, w) == Cardinality({r \in s : CooldownMatch(r, e, w)})

\* A CheckCooldown that fails open: its error result asks for an alert.
NoDedupFailOpen == [ShouldAlert |-> TRUE, RecentCount |-> 0, Aggregated |-> FALSE]

\* The zero DedupResult, returned with a database error.
NoDedup == [ShouldAlert |-> FALSE, RecentCount |-> 0, Aggregated |-> FALSE]

\* DB.CheckCooldown when the query succeeds.
CheckCooldown(s, e, w, threshold) ==
  LET count == RecentCount(s, e, w)
  IN  IF count = 0
      THEN [ShouldAlert |-> TRUE, RecentCount |-> count, Aggregated |-> FALSE]
      ELSE IF count = threshold
      THEN [ShouldAlert |-> TRUE, RecentCount |-> count, Aggregated |-> TRUE]
      ELSE [ShouldAlert |-> FALSE, RecentCount |-> count, Aggregated |-> FALSE]

----------------------------------------------------------------------------
(* The reporter *)

\* strings.EqualFold on tier names: equal up to the case of the letter.
Fold(t) == IF t = "t1" THEN "T1" ELSE IF t = "t2" THEN "T2" ELSE IF t = "t3" THEN "T3" ELSE t

EqualFold(a, b) == Fold(a) = Fold(b)

\* Config.ShouldAlert: the tier is one of ntfy.alert_tiers, case ignored.
ShouldAlert(c, tier) == \E t \in c.alert_tiers : EqualFold(t, tier)

\* A Report that forgets the alert_tiers policy.
ReportSkipsNoUrlOnly(c, e) == c.url = UrlNone

\* Report returns nil without a request: no URL, or tier not alerted.
ReportSkips(c, e) == c.url = UrlNone \/ ~ShouldAlert(c, e.tier)

\* http.NewRequestWithContext fails on a URL that does not parse.
RequestFails(c) == c.url = UrlMalformed

\* What client.Do can answer: a 2xx status, another status, or no response
\* (transport failure or the 15 s timeout).
Responses == {"2xx", "non2xx", "failed"}

\* Report's result for a response: nil only for a 2xx status.
ReportErr(resp) == resp # "2xx"

----------------------------------------------------------------------------
(* The pipeline driver *)

NoCall == [inserts |-> 0, insertErr |-> FALSE, cooldowns |-> 0, cooldownErr |-> FALSE,
           reports |-> 0, reportErr |-> FALSE, requests |-> 0, marks |-> 0]

\* config.Default() has alert_tiers T1 and T2; a configuration file may
\* spell a tier in lower case.
AlertTierChoices == { {"T1", "T2"}, {"t1"} }

Configs ==
  { [instance |-> "h1", url |-> u, alert_tiers |-> a,
     window |-> Window, threshold |-> n] :
       u \in {UrlNone, UrlValid, UrlMalformed}, a \in AlertTierChoices,
       n \in 1..MaxThreshold }

\* handleEvent after CheckCooldown: report when ShouldAlert, else return.
AfterCooldown(d) == IF d.ShouldAlert THEN "report" ELSE "idle"

\* A handleEvent that marks the event notified whatever Report returned.
AfterReportMarkAlways(err) == "mark"

\* handleEvent after Report: return on an error, else mark the event notified.
AfterReport(err) == IF err THEN "idle" ELSE "mark"

----------------------------------------------------------------------------
(* The goroutines around handleEvent, before run has started them *)

\* The periodic monitors run can start (cfg.PSI, cfg.SMART, cfg.GPU).
Monitors == {"psi", "smart", "gpu"}

\* A journal record in a channel: <<session, position in the session>>.
NoRecord == <<0, 0>>

\* A session of the journal source: its goroutine lives until it closes the
\* session's channel buf; made counts the records it has read.
NoSession == [live |-> FALSE, buf |-> <<>>, made |-> 0, stopped |-> FALSE]

\* The zero QueryFilter: no bound, no tier, no instance, no limit.
NoFilter == [since |-> 0, until |-> 0, tier |-> "", instance_id |-> "", limit |-> 0]

\* No call of the store has returned.
NoAnswer == [call |-> "", arg |-> 0, filter |-> NoFilter, err |-> FALSE, n |-> 0,
             rows |-> <<>>, dedup |-> [ShouldAlert |-> FALSE, RecentCount |-> 0,
                                       Aggregated |-> FALSE]]

\* The zero Event as far as the enricher reads it, with the detail as the
\* sequence of its text blocks.
NotGiven == [tier |-> "", pid |-> 0, process |-> "", unit |-> "", summary |-> "",
             gpu_event |-> "", detail |-> <<>>]

\* No outcome of an external query is known.
NoWorld == [coredump |-> "", logs |-> "", smart |-> "", gpus |-> 0, temp |-> 0]

\* Enrich has returned nothing yet: the event as it stands and the calls made.
NoResult == [ev |-> NotGiven, trace |-> <<>>]

\* The zero JournalEntry, as far as the classifier reads it.
NoEntry == [msg |-> {}, lead |-> "", ident |-> "", transport |-> "",
            field |-> <<>>, unit |-> ""]

ChannelsIdle == ctxDone = FALSE /\ out = <<>> /\ outClosed = FALSE

SupervisorIdle ==
  /\ maxRestarts = 0
  /\ supPc = "idle"
  /\ restarts = 0
  /\ attempts = 0
  /\ sessions = 0
  /\ sess = NoSession
  /\ held = NoRecord
  /\ supExit = ""
  /\ received = <<>>
  /\ delivered = <<>>

LoopIdle ==
  /\ started = {}
  /\ monPc = [m \in Monitors |-> "off"]
  /\ monCh = [m \in Monitors |-> 0]
  /\ sent = [m \in Monitors |-> 0]
  /\ lost = [m \in Monitors |-> 0]
  /\ drvIn = [m \in Monitors |-> FALSE]
  /\ drvPc = "idle"
  /\ sigCh = 0
  /\ sd = {}
  /\ handled = [m \in Monitors \cup {"record"} |-> 0]

ClassifierIdle == rec = NoEntry /\ called = "" /\ events = <<>>

\* Enrich has not been called.
EnricherIdle == given = NotGiven /\ world = NoWorld /\ enriched = NoResult

\* No call of the store has been made on its own.
StoreIdle ==
  /\ db = {}
  /\ hand = NoEvent
  /\ inserted = {}
  /\ cut = <<>>
  /\ dbClock = 0
  /\ ans = NoAnswer

NoStats == [SomeAvg10 |-> 0, FullAvg10 |-> 0]

NoCheck == [read |-> "", seen |-> FALSE, stats |-> NoStats, send |-> ""]

StoppedTicker == [on |-> FALSE, C |-> 0]

PSIIdle ==
  /\ psiMon = [warnSomeAvg10 |-> 0, warnFullAvg10 |-> 0]
  /\ inPressure = FALSE
  /\ ticker = StoppedTicker
  /\ highFreqTicker = StoppedTicker
  /\ polling = FALSE
  /\ psiCh = <<>>
  /\ psiCtx = FALSE
  /\ checked = NoCheck

\* The zero SMARTStatus, as far as checkAll reads it.
NoStatus == [Healthy |-> FALSE, ReallocCount |-> 0, PendCount |-> 0, ErrorCount |-> 0]

\* No device has been queried.
NoQuery == [err |-> FALSE, status |-> NoStatus, send |-> "", Changed |-> FALSE]

\* The block devices detectDisks can find.
SmartDevices == {"sda", "sdb"}

\* A device lastStatus has no entry for.
Unseen == [seen |-> FALSE, status |-> NoStatus]

SMARTIdle ==
  /\ lastStatus = [d \in SmartDevices |-> Unseen]
  /\ smartPc = "off"
  /\ devices = <<>>
  /\ smartCh = <<>>
  /\ smartCtx = FALSE
  /\ queried = NoQuery

\* The zero GPUStatus, as far as checkAll and run read it.
NoGPUStatus == [Temperature |-> 0, VRAMUsed |-> 0, VRAMTotal |-> 0]

\* No card has been read.
NoPoll == [status |-> NoGPUStatus, thermal |-> "", vram |-> ""]

\* run has received no GPU event.
NoSummary == [Reason |-> "", pct |-> 0, panic |-> FALSE]

GPUIdle ==
  /\ gpuMon = [tempWarn |-> 0, vramWarnPct |-> 0]
  /\ gpuPc = "off"
  /\ cards = 0
  /\ gpuCh = <<>>
  /\ gpuCtx = FALSE
  /\ polled = NoPoll
  /\ drvGpu = NoSummary

\* BuildDigest has not been called.
\* The names a digest breaks its counts down by.
DigestNames == {"unknown", "vlc", "a.service"}

\* A DigestSummary before BuildDigest has filled it in; a breakdown map holds
\* the names whose count is positive.
NoDigest ==
  [built |-> FALSE, OOMKills |-> 0, Crashes |-> 0, ServiceFailures |-> 0,
   KernelHWErrors |-> 0, MemPressure |-> 0,
   OOMBreakdown |-> [n \in DigestNames |-> 0],
   CrashBreakdown |-> [n \in DigestNames |-> 0],
   ServiceBreakdown |-> [n \in DigestNames |-> 0],
   KernelBreakdown |-> <<>>]

\* No digest text yet.
NoRendered == [done |-> FALSE, OOM |-> <<>>, Crash |-> <<>>, Service |-> <<>>, Kernel |-> <<>>]

DigestIdle == digestEvents = <<>> /\ digest = NoDigest /\ rendered = NoRendered

\* Everything beside the goroutines of run, before it is used.
MoreIdle == GPUIdle /\ DigestIdle /\ purges = 0

SideIdle ==
  ClassifierIdle /\ EnricherIdle /\ StoreIdle /\ PSIIdle /\ SMARTIdle /\ MoreIdle

ProcIdle == ChannelsIdle /\ SupervisorIdle /\ LoopIdle /\ SideIdle

\* handleEvent is not running: the store is empty and no event is in hand.
PipeIdle ==
  /\ cfg = [instance |-> "h1", url |-> UrlNone, alert_tiers |-> {"T1", "T2"},
            window |-> Window, threshold |-> 1]
  /\ store = {}
  /\ clock = StartTime
  /\ nextId = 1
  /\ faults = 0
  /\ pc = "idle"
  /\ ev = NoEvent
  /\ dedup = NoDedup
  /\ cur = NoCall
  /\ posts = [i \in EventIds |-> 0]
  /\ acked = {}
  /\ log = <<>>

Init ==
  /\ cfg \in Configs
  /\ store = {}
  /\ clock = StartTime
  /\ nextId = 1
  /\ faults = 0
  /\ pc = "idle"
  /\ ev = NoEvent
  /\ dedup = NoDedup
  /\ cur = NoCall
  /\ posts = [i \in EventIds |-> 0]
  /\ acked = {}
  /\ log = <<>>
  /\ ProcIdle

\* handleEvent returns: the call's record is appended to the driver's history.
Returned(e, d, c) == Append(log, [ev |-> e, dedup |-> d, call |-> c])

\* run: an event comes out of the classifier (or a monitor helper);
\* handleEvent is entered and enr.Enrich has run.
Receive ==
  /\ pc = "idle"
  /\ nextId <= MaxEvents
  /\ \E k \in EventKinds, d \in Steps :
       /\ ev' = [id |-> nextId, instance_id |-> cfg.instance, timestamp |-> clock + d,
                 tier |-> k.tier, process |-> k.process, unit |-> k.unit]
       /\ clock' = clock + d
  /\ nextId' = nextId + 1
  /\ dedup' = NoDedup
  /\ cur' = NoCall
  /\ pc' = "insert"
  /\ UNCHANGED <<cfg, store, faults, posts, acked, log>>
  /\ UNCHANGED procVars

\* A handleEvent that goes to the cooldown check without storing the event.
DoInsertSkipped ==
  /\ pc = "insert"
  /\ pc' = "cooldown"
  /\ UNCHANGED <<cfg, store, clock, nextId, faults, ev, dedup, cur, posts, acked, log>>
  /\ UNCHANGED procVars

\* handleEvent: db.Insert(ev); an error is logged and the handler goes on.
DoInsert ==
  /\ pc = "insert"
  /\ \/ /\ store' = Insert(store, ev)
        /\ cur' = [cur EXCEPT !.inserts = @ + 1]
        /\ faults' = faults
     \/ /\ faults < MaxFaults
        /\ store' = store
        /\ cur' = [cur EXCEPT !.inserts = @ + 1, !.insertErr = TRUE]
        /\ faults' = faults + 1
  /\ pc' = "cooldown"
  /\ UNCHANGED <<cfg, clock, nextId, ev, dedup, posts, acked, log>>
  /\ UNCHANGED procVars

\* handleEvent: db.CheckCooldown(ev, window, threshold); on an error the zero
\* DedupResult is used.  The handler returns when ShouldAlert is false.
DoCheckCooldown ==
  /\ pc = "cooldown"
  /\ \/ /\ dedup' = CheckCooldown(store, ev, cfg.window, cfg.threshold)
        /\ cur' = [cur EXCEPT !.cooldowns = @ + 1]
        /\ faults' = faults
     \/ /\ faults < MaxFaults
        /\ dedup' = NoDedup
        /\ cur' = [cur EXCEPT !.cooldowns = @ + 1, !.cooldownErr = TRUE]
        /\ faults' = faults + 1
  /\ pc' = AfterCooldown(dedup')
  /\ log' = IF pc' = "idle" THEN Returned(ev, dedup', cur') ELSE log
  /\ UNCHANGED <<cfg, store, clock, nextId, ev, posts, acked>>
  /\ UNCHANGED procVars

\* handleEvent: rep.Report(ctx, ev); on an error the handler returns.
DoReport ==
  /\ pc = "report"
  /\ \/ /\ ReportSkips(cfg, ev)
        /\ cur' = [cur EXCEPT !.reports = @ + 1]
        /\ UNCHANGED <<posts, acked, faults>>
     \/ /\ ~ReportSkips(cfg, ev)
        /\ RequestFails(cfg)
        /\ cur' = [cur EXCEPT !.reports = @ + 1, !.reportErr = TRUE]
        /\ UNCHANGED <<posts, acked, faults>>
     \/ /\ ~ReportSkips(cfg, ev)
        /\ ~RequestFails(cfg)
        /\ \E resp \in Responses :
             /\ ReportErr(resp) => faults < MaxFaults
             /\ faults' = IF ReportErr(resp) THEN faults + 1 ELSE faults
             /\ posts' = [posts EXCEPT ![ev.id] = @ + 1]
             /\ acked' = IF resp = "2xx" THEN acked \cup {ev.id} ELSE acked
             /\ cur' = [cur EXCEPT !.reports = @ + 1, !.requests = @ + 1,
                                   !.reportErr = ReportErr(resp)]
  /\ pc' = AfterReport(cur'.reportErr)
  /\ log' = IF pc' = "idle" THEN Returned(ev, dedup, cur') ELSE log
  /\ UNCHANGED <<cfg, store, clock, nextId, ev, dedup>>
  /\ UNCHANGED procVars

\* handleEvent: _ = db.MarkNotified(ev.ID); the handler returns.
DoMarkNotified ==
  /\ pc = "mark"
  /\ \/ /\ store' = MarkNotified(store, ev.id)
        /\ faults' = faults
     \/ /\ faults < MaxFaults
        /\ store' = store
        /\ faults' = faults + 1
  /\ cur' = [cur EXCEPT !.marks = @ + 1]
  /\ pc' = "idle"
  /\ log' = Returned(ev, dedup, cur')
  /\ UNCHANGED <<cfg, clock, nextId, ev, dedup, posts, acked>>
  /\ UNCHANGED procVars

Next == Receive \/ DoInsert \/ DoCheckCooldown \/ DoReport \/ DoMarkNotified

Spec == Init /\ [][Next]_vars

----------------------------------------------------------------------------
(* CheckCooldown called directly on a store, as the store's tests call it *)

\* Subjects of rows and events: (process, unit).
Subjects == { <<"vlc", "">>, <<"", "">>, <<"", "a.service">>, <<"vlc", "a.service">> }

\* Instance and tier of a stored row: the event's own, another host's,
\* another tier's.
Origins == { <<"h1", "T1">>, <<"h2", "T1">>, <<"h1", "T3">> }

\* Timestamps of stored rows: before the window, in the second the window
\* starts in, and inside the window.
RowTimes == { StartTime - 100, StartTime, StartTime + 75 }

\* Timestamps of the event: the window starts at StartTime + 50 and at StartTime.
EventTimes == { StartTime + Window + 50, StartTime + Window }

RowChoices ==
  { [instance_id |-> o[1], tier |-> o[2], process |-> sb[1], unit |-> sb[2],
     timestamp |-> t] : o \in Origins, sb \in Subjects, t \in RowTimes }

\* The stores of k rows, with ids 1..k, built by Insert.
RECURSIVE StoresOf(_)
StoresOf(k) ==
  IF k = 0 THEN { {} }
  ELSE { Insert(s, [id |-> k, instance_id |-> c.instance_id, timestamp |-> c.timestamp,
                    tier |-> c.tier, process |-> c.process, unit |-> c.unit]) :
           s \in StoresOf(k - 1), c \in RowChoices }

InitCooldown ==
  /\ cfg \in { c \in Configs : c.url = UrlNone /\ c.alert_tiers = {"T1", "T2"} }
  /\ \E k \in 0..MaxRows : store \in StoresOf(k)
  /\ \E sb \in Subjects, t \in EventTimes :
       ev = [id |-> MaxRows + 1, instance_id |-> "h1", timestamp |-> t,
             tier |-> "T1", process |-> sb[1], unit |-> sb[2]]
  /\ clock = StartTime
  /\ nextId = MaxRows + 2
  /\ faults = 0
  /\ pc = "cooldown"
  /\ dedup = NoDedup
  /\ cur = NoCall
  /\ posts = [i \in EventIds |-> 0]
  /\ acked = {}
  /\ log = <<>>
  /\ ProcIdle

NextCooldown == DoCheckCooldown

SpecCooldown == InitCooldown /\ [][NextCooldown]_vars

----------------------------------------------------------------------------
(* The supervised journal source: SupervisedSource.Entries *)

MaxCap == 2           \* largest restart cap tried; 0 is "unlimited"
MaxAttempts == 3      \* sessions the factory is asked for in one run
MaxRecords == 2       \* records one session reads from journalctl
OutCap == 2           \* slots of the output channel (the code makes 64)
SessCap == 1          \* slots of a session's channel (the code makes 64)

\* The loop's first statement: the cap is exhausted.
CapReached == maxRestarts > 0 /\ restarts >= maxRestarts

\* A Stop that leaves the session running.
StopIgnored(s) == s

\* source.Stop(): cancels the session's context.
Stopped(s) == [s EXCEPT !.stopped = TRUE]

\* The goroutine returns: the deferred close(out) runs.
SupReturn(why) ==
  /\ supPc' = "done"
  /\ outClosed' = TRUE
  /\ supExit' = why

\* A supervisor that applies the cap even when it is 0.
SupGiveUpAnyCap ==
  /\ supPc = "check"
  /\ restarts >= maxRestarts
  /\ SupReturn("cap")
  /\ UNCHANGED <<maxRestarts, restarts, attempts, sessions, sess, held, received, delivered>>
  /\ UNCHANGED <<ctxDone, out>>
  /\ UNCHANGED <<pipeVars, loopVars, sideVars>>

\* Top of the loop with the cap reached: log and return.
SupGiveUp ==
  /\ supPc = "check"
  /\ CapReached
  /\ SupReturn("cap")
  /\ UNCHANGED <<maxRestarts, restarts, attempts, sessions, sess, held, received, delivered>>
  /\ UNCHANGED <<ctxDone, out>>
  /\ UNCHANGED <<pipeVars, loopVars, sideVars>>

\* Top of the loop: s.factory() and source.Entries(ctx) succeed.
SupStartOk ==
  /\ supPc = "check"
  /\ ~CapReached
  /\ attempts' = attempts + 1
  /\ sessions' = sessions + 1
  /\ sess' = [live |-> TRUE, buf |-> <<>>, made |-> 0, stopped |-> FALSE]
  /\ supPc' = "recv"
  /\ UNCHANGED <<maxRestarts, restarts, held, supExit, received, delivered>>
  /\ UNCHANGED chanVars
  /\ UNCHANGED <<pipeVars, loopVars, sideVars>>

\* Top of the loop: source.Entries(ctx) returns an error.
SupStartFail ==
  /\ supPc = "check"
  /\ ~CapReached
  /\ attempts' = attempts + 1
  /\ supPc' = "waitFail"
  /\ UNCHANGED <<maxRestarts, restarts, sessions, sess, held, supExit, received, delivered>>
  /\ UNCHANGED chanVars
  /\ UNCHANGED <<pipeVars, loopVars, sideVars>>

\* After a failed start: the context is done.
FailWaitCancel ==
  /\ supPc = "waitFail"
  /\ ctxDone
  /\ SupReturn("waitFail")
  /\ UNCHANGED <<maxRestarts, restarts, attempts, sessions, sess, held, received, delivered>>
  /\ UNCHANGED <<ctxDone, out>>
  /\ UNCHANGED <<pipeVars, loopVars, sideVars>>

\* A failed start that is waited out without being counted.
FailWaitTimerUncounted ==
  /\ supPc = "waitFail"
  /\ attempts < MaxAttempts
  /\ supPc' = "check"
  /\ UNCHANGED <<maxRestarts, restarts, attempts, sessions, sess, held, supExit, received, delivered>>
  /\ UNCHANGED chanVars
  /\ UNCHANGED <<pipeVars, loopVars, sideVars>>

\* After a failed start: restartWait has passed; restarts++ and continue.
FailWaitTimer ==
  /\ supPc = "waitFail"
  /\ attempts < MaxAttempts
  /\ restarts' = restarts + 1
  /\ supPc' = "check"
  /\ UNCHANGED <<maxRestarts, attempts, sessions, sess, held, supExit, received, delivered>>
  /\ UNCHANGED chanVars
  /\ UNCHANGED <<pipeVars, loopVars, sideVars>>

\* Forwarding loop, outer select: a record arrives from the session.
RecvEntry ==
  /\ supPc = "recv"
  /\ sess.buf # <<>>
  /\ held' = Head(sess.buf)
  /\ received' = Append(received, Head(sess.buf))
  /\ sess' = [sess EXCEPT !.buf = Tail(@)]
  /\ supPc' = "send"
  /\ UNCHANGED <<maxRestarts, restarts, attempts, sessions, supExit, delivered>>
  /\ UNCHANGED chanVars
  /\ UNCHANGED <<pipeVars, loopVars, sideVars>>

\* Forwarding loop, outer select: the session's channel is closed and empty;
\* the loop ends, source.Stop() and restarts++ follow.
RecvClosed ==
  /\ supPc = "recv"
  /\ sess.buf = <<>>
  /\ ~sess.live
  /\ sess' = Stopped(sess)
  /\ restarts' = restarts + 1
  /\ supPc' = "backoff"
  /\ UNCHANGED <<maxRestarts, attempts, sessions, held, supExit, received, delivered>>
  /\ UNCHANGED chanVars
  /\ UNCHANGED <<pipeVars, loopVars, sideVars>>

\* Forwarding loop, outer select: the context is done.
RecvCancel ==
  /\ supPc = "recv"
  /\ ctxDone
  /\ sess' = Stopped(sess)
  /\ SupReturn("recv")
  /\ UNCHANGED <<maxRestarts, restarts, attempts, sessions, held, received, delivered>>
  /\ UNCHANGED <<ctxDone, out>>
  /\ UNCHANGED <<pipeVars, loopVars, sideVars>>

\* A send that gives the record up when the output is full.
SendOutOrDrop ==
  /\ supPc = "send"
  /\ out' = IF Len(out) < OutCap THEN Append(out, held) ELSE out
  /\ held' = NoRecord
  /\ supPc' = "recv"
  /\ UNCHANGED <<maxRestarts, restarts, attempts, sessions, sess, supExit, received, delivered>>
  /\ UNCHANGED <<ctxDone, outClosed>>
  /\ UNCHANGED <<pipeVars, loopVars, sideVars>>

\* Forwarding loop, inner select: the output has a free slot.
SendOut ==
  /\ supPc = "send"
  /\ Len(out) < OutCap
  /\ out' = Append(out, held)
  /\ held' = NoRecord
  /\ supPc' = "recv"
  /\ UNCHANGED <<maxRestarts, restarts, attempts, sessions, sess, supExit, received, delivered>>
  /\ UNCHANGED <<ctxDone, outClosed>>
  /\ UNCHANGED <<pipeVars, loopVars, sideVars>>

\* An inner select without the context's case.
SendCancelMissing ==
  /\ FALSE
  /\ UNCHANGED vars

\* Forwarding loop, inner select: the context is done; the record in hand
\* is not forwarded.
SendCancel ==
  /\ supPc = "send"
  /\ ctxDone
  /\ sess' = Stopped(sess)
  /\ SupReturn("send")
  /\ UNCHANGED <<maxRestarts, restarts, attempts, sessions, held, received, delivered>>
  /\ UNCHANGED <<ctxDone, out>>
  /\ UNCHANGED <<pipeVars, loopVars, sideVars>>

\* Backoff after a session that ended: the context is done.
BackoffCancel ==
  /\ supPc = "backoff"
  /\ ctxDone
  /\ SupReturn("backoff")
  /\ UNCHANGED <<maxRestarts, restarts, attempts, sessions, sess, held, received, delivered>>
  /\ UNCHANGED <<ctxDone, out>>
  /\ UNCHANGED <<pipeVars, loopVars, sideVars>>

\* Backoff after a session that ended: restartWait has passed.
BackoffTimer ==
  /\ supPc = "backoff"
  /\ attempts < MaxAttempts
  /\ supPc' = "check"
  /\ UNCHANGED <<maxRestarts, restarts, attempts, sessions, sess, held, supExit, received, delivered>>
  /\ UNCHANGED chanVars
  /\ UNCHANGED <<pipeVars, loopVars, sideVars>>

\* The session's goroutine: a line of journalctl is parsed and sent.
SessProduce ==
  /\ sess.live
  /\ ~sess.stopped
  /\ sess.made < MaxRecords
  /\ Len(sess.buf) < SessCap
  /\ sess' = [sess EXCEPT !.buf = Append(@, <<sessions, sess.made + 1>>),
                          !.made = @ + 1]
  /\ UNCHANGED <<maxRestarts, supPc, restarts, attempts, sessions, held, supExit, received, delivered>>
  /\ UNCHANGED chanVars
  /\ UNCHANGED <<pipeVars, loopVars, sideVars>>

\* The session's goroutine returns (journalctl's output ended, or the
\* session's context is done): the deferred close(ch) runs.
SessExit ==
  /\ sess.live
  /\ sess' = [sess EXCEPT !.live = FALSE]
  /\ UNCHANGED <<maxRestarts, supPc, restarts, attempts, sessions, held, supExit, received, delivered>>
  /\ UNCHANGED chanVars
  /\ UNCHANGED <<pipeVars, loopVars, sideVars>>

\* The reader of the output takes the next record.
Consume ==
  /\ out # <<>>
  /\ delivered' = Append(delivered, Head(out))
  /\ out' = Tail(out)
  /\ UNCHANGED <<maxRestarts, supPc, restarts, attempts, sessions, sess, held, supExit, received>>
  /\ UNCHANGED <<ctxDone, outClosed>>
  /\ UNCHANGED <<pipeVars, loopVars, sideVars>>

\* The reader while it runs: run's loop reads until it cancels the context.
ConsumeRunning == ~ctxDone /\ Consume

\* The owner of the context cancels it.
Cancel ==
  /\ ~ctxDone
  /\ ctxDone' = TRUE
  /\ UNCHANGED <<out, outClosed>>
  /\ UNCHANGED <<pipeVars, supVars, loopVars, sideVars>>

\* NewSupervisedSource(factory, restartWait, maxRestarts) and Entries(ctx):
\* the output is made and the goroutine is at the top of its loop.
InitSupervisor ==
  /\ PipeIdle
  /\ ChannelsIdle
  /\ maxRestarts \in 0..MaxCap
  /\ supPc = "check"
  /\ restarts = 0
  /\ attempts = 0
  /\ sessions = 0
  /\ sess = NoSession
  /\ held = NoRecord
  /\ supExit = ""
  /\ received = <<>>
  /\ delivered = <<>>
  /\ LoopIdle
  /\ SideIdle

NextSupervisor ==
  \/ SupGiveUp \/ SupStartOk \/ SupStartFail
  \/ FailWaitCancel \/ FailWaitTimer
  \/ RecvEntry \/ RecvClosed \/ RecvCancel
  \/ SendOut \/ SendCancel
  \/ BackoffCancel \/ BackoffTimer
  \/ SessProduce \/ SessExit
  \/ Consume \/ Cancel

\* The goroutine is scheduled and its timers fire; a select with several
\* ready cases takes each of them sooner or later; the reader keeps reading
\* while the context is not cancelled.
FairSupervisor ==
  /\ WF_vars(SupGiveUp \/ SupStartOk \/ SupStartFail)
  /\ WF_vars(FailWaitTimer)
  /\ WF_vars(BackoffTimer)
  /\ WF_vars(RecvEntry \/ RecvClosed)
  /\ WF_vars(SendOut)
  /\ SF_vars(FailWaitCancel \/ RecvCancel \/ SendCancel \/ BackoffCancel)
  /\ WF_vars(ConsumeRunning)

SpecSupervisor == InitSupervisor /\ [][NextSupervisor]_vars /\ FairSupervisor

----------------------------------------------------------------------------
(* The monitors and the select loop of run *)

MonCap == 1           \* slots of a monitor's channel (the code makes 8)
MaxEmits == 2         \* emissions all monitors attempt in one run
MaxFeed == 1          \* records the supervisor forwards in one run

\* Which monitors the configuration enables.
StartedChoices == { {"psi", "smart"}, {"gpu"}, {} }

Total(f) == f["psi"] + f["smart"] + f["gpu"]

\* Emissions attempted so far.
Emits == Total(sent) + Total(lost)

\* run up to its loop: the database is opened, Entries and the enabled
\* monitors' Events start their goroutines, READY=1 is notified.
RunSetup ==
  /\ drvPc = "setup"
  /\ supPc' = "fwd"
  /\ monPc' = [m \in Monitors |-> IF m \in started THEN "poll" ELSE "off"]
  /\ drvIn' = [m \in Monitors |-> m \in started]
  /\ sd' = sd \cup {"READY=1"}
  /\ drvPc' = "select"
  /\ UNCHANGED <<started, monCh, sent, lost, sigCh, handled>>
  /\ UNCHANGED <<maxRestarts, restarts, attempts, sessions, sess, held, supExit, received, delivered>>
  /\ UNCHANGED chanVars
  /\ UNCHANGED <<pipeVars, sideVars>>

\* run returns an error before anything is started (dataDirectory or
\* store.Open failed); the deferred cancel runs.
RunSetupFails ==
  /\ drvPc = "setup"
  /\ drvPc' = "returnedErr"
  /\ ctxDone' = TRUE
  /\ UNCHANGED <<started, monPc, monCh, sent, lost, drvIn, sigCh, sd, handled>>
  /\ UNCHANGED <<out, outClosed>>
  /\ UNCHANGED <<pipeVars, supVars, sideVars>>

\* The supervisor, seen from run: it forwards a record to the output.
SupForward ==
  /\ supPc = "fwd"
  /\ Len(received) < MaxFeed
  /\ Len(out) < OutCap
  /\ out' = Append(out, <<1, Len(received) + 1>>)
  /\ received' = Append(received, <<1, Len(received) + 1>>)
  /\ UNCHANGED <<maxRestarts, supPc, restarts, attempts, sessions, sess, held, supExit, delivered>>
  /\ UNCHANGED <<ctxDone, outClosed>>
  /\ UNCHANGED <<pipeVars, loopVars, sideVars>>

\* The supervisor, seen from run: the context is done, it returns and
\* closes the output.
SupClose ==
  /\ supPc = "fwd"
  /\ ctxDone
  /\ SupReturn("recv")
  /\ UNCHANGED <<maxRestarts, restarts, attempts, sessions, sess, held, received, delivered>>
  /\ UNCHANGED <<ctxDone, out>>
  /\ UNCHANGED <<pipeVars, loopVars, sideVars>>

\* A monitor that stores what it emits.
MonSendStores(m) ==
  /\ monPc[m] = "poll"
  /\ Emits < MaxEmits
  /\ monCh[m] < MonCap
  /\ monCh' = [monCh EXCEPT ![m] = @ + 1]
  /\ sent' = [sent EXCEPT ![m] = @ + 1]
  /\ store' = Insert(store, [NoEvent EXCEPT !.id = MaxEvents + 1,
                                            !.timestamp = clock])
  /\ UNCHANGED <<started, monPc, lost, drvIn, drvPc, sigCh, sd, handled>>
  /\ UNCHANGED <<cfg, clock, nextId, faults, pc, ev, dedup, cur, posts, acked, log>>
  /\ UNCHANGED <<chanVars, supVars, sideVars>>

\* A monitor's emission, the channel has a free slot: the event is sent.
MonSend(m) ==
  /\ monPc[m] = "poll"
  /\ Emits < MaxEmits
  /\ monCh[m] < MonCap
  /\ monCh' = [monCh EXCEPT ![m] = @ + 1]
  /\ sent' = [sent EXCEPT ![m] = @ + 1]
  /\ UNCHANGED <<started, monPc, lost, drvIn, drvPc, sigCh, sd, handled>>
  /\ UNCHANGED <<pipeVars, chanVars, supVars, sideVars>>

\* An emission that has no default case.
MonLoseCancelledOnly(m) ==
  /\ monPc[m] = "poll"
  /\ Emits < MaxEmits
  /\ ctxDone
  /\ lost' = [lost EXCEPT ![m] = @ + 1]
  /\ UNCHANGED <<started, monPc, monCh, sent, drvIn, drvPc, sigCh, sd, handled>>
  /\ UNCHANGED <<pipeVars, chanVars, supVars, sideVars>>

\* A monitor's emission, the default case (the channel is full) or the
\* ctx.Done() case: the event is not sent and the poll loop goes on.
MonLose(m) ==
  /\ monPc[m] = "poll"
  /\ Emits < MaxEmits
  /\ monCh[m] = MonCap \/ ctxDone
  /\ lost' = [lost EXCEPT ![m] = @ + 1]
  /\ UNCHANGED <<started, monPc, monCh, sent, drvIn, drvPc, sigCh, sd, handled>>
  /\ UNCHANGED <<pipeVars, chanVars, supVars, sideVars>>

\* A monitor's poll loop: the context is done, poll returns and the
\* deferred close(ch) runs.
MonExit(m) ==
  /\ monPc[m] = "poll"
  /\ ctxDone
  /\ monPc' = [monPc EXCEPT ![m] = "done"]
  /\ UNCHANGED <<started, monCh, sent, lost, drvIn, drvPc, sigCh, sd, handled>>
  /\ UNCHANGED <<pipeVars, chanVars, supVars, sideVars>>

\* run's loop, case entries: a record is classified and, if Classify
\* returns an event, handleEvent runs.
DrvRecord ==
  /\ drvPc = "select"
  /\ out # <<>>
  /\ out' = Tail(out)
  /\ delivered' = Append(delivered, Head(out))
  /\ \E matched \in BOOLEAN :
       handled' = IF matched THEN [handled EXCEPT !["record"] = @ + 1] ELSE handled
  /\ UNCHANGED <<started, monPc, monCh, sent, lost, drvIn, drvPc, sigCh, sd>>
  /\ UNCHANGED <<maxRestarts, supPc, restarts, attempts, sessions, sess, held, supExit, received>>
  /\ UNCHANGED <<ctxDone, outClosed>>
  /\ UNCHANGED <<pipeVars, sideVars>>

\* run's loop, case entries with ok false: run returns nil; the deferred
\* cancel runs.
DrvEntriesClosed ==
  /\ drvPc = "select"
  /\ out = <<>>
  /\ outClosed
  /\ drvPc' = "returnedNil"
  /\ ctxDone' = TRUE
  /\ UNCHANGED <<started, monPc, monCh, sent, lost, drvIn, sigCh, sd, handled>>
  /\ UNCHANGED <<out, outClosed>>
  /\ UNCHANGED <<pipeVars, supVars, sideVars>>

\* run's loop, case of monitor m: the event goes through the monitor's
\* classifier helper and handleEvent.
DrvMon(m) ==
  /\ drvPc = "select"
  /\ drvIn[m]
  /\ monCh[m] > 0
  /\ monCh' = [monCh EXCEPT ![m] = @ - 1]
  /\ handled' = [handled EXCEPT ![m] = @ + 1]
  /\ UNCHANGED <<started, monPc, sent, lost, drvIn, drvPc, sigCh, sd>>
  /\ UNCHANGED <<pipeVars, chanVars, supVars, sideVars>>

\* A loop that handles what it reads from a closed monitor channel.
DrvMonClosedHandled(m) ==
  /\ drvPc = "select"
  /\ drvIn[m]
  /\ monCh[m] = 0
  /\ monPc[m] = "done"
  /\ handled' = [handled EXCEPT ![m] = @ + 1]
  /\ drvIn' = [drvIn EXCEPT ![m] = FALSE]
  /\ UNCHANGED <<started, monPc, monCh, sent, lost, drvPc, sigCh, sd>>
  /\ UNCHANGED <<pipeVars, chanVars, supVars, sideVars>>

\* run's loop, case of monitor m with ok false: the channel variable is set
\* to nil and the loop continues.
DrvMonClosed(m) ==
  /\ drvPc = "select"
  /\ drvIn[m]
  /\ monCh[m] = 0
  /\ monPc[m] = "done"
  /\ drvIn' = [drvIn EXCEPT ![m] = FALSE]
  /\ UNCHANGED <<started, monPc, monCh, sent, lost, drvPc, sigCh, sd, handled>>
  /\ UNCHANGED <<pipeVars, chanVars, supVars, sideVars>>

\* run's loop, case watchdogCh.
DrvWatchdog ==
  /\ drvPc = "select"
  /\ sd' = sd \cup {"WATCHDOG=1"}
  /\ UNCHANGED <<started, monPc, monCh, sent, lost, drvIn, drvPc, sigCh, handled>>
  /\ UNCHANGED <<pipeVars, chanVars, supVars, sideVars>>

\* A loop that cancels the context in the same breath as it notifies.
DrvSignalCancels ==
  /\ drvPc = "select"
  /\ sigCh = 1
  /\ sigCh' = 0
  /\ sd' = sd \cup {"STOPPING=1"}
  /\ ctxDone' = TRUE
  /\ drvPc' = "cancel"
  /\ UNCHANGED <<started, monPc, monCh, sent, lost, drvIn, handled>>
  /\ UNCHANGED <<out, outClosed>>
  /\ UNCHANGED <<pipeVars, supVars, sideVars>>

\* run's loop, case sigCh: the signal is logged and STOPPING=1 is notified.
DrvSignal ==
  /\ drvPc = "select"
  /\ sigCh = 1
  /\ sigCh' = 0
  /\ sd' = sd \cup {"STOPPING=1"}
  /\ drvPc' = "cancel"
  /\ UNCHANGED <<started, monPc, monCh, sent, lost, drvIn, handled>>
  /\ UNCHANGED <<pipeVars, chanVars, supVars, sideVars>>

\* run's loop, case sigCh: cancel().
DrvCancel ==
  /\ drvPc = "cancel"
  /\ ctxDone' = TRUE
  /\ drvPc' = "return"
  /\ UNCHANGED <<started, monPc, monCh, sent, lost, drvIn, sigCh, sd, handled>>
  /\ UNCHANGED <<out, outClosed>>
  /\ UNCHANGED <<pipeVars, supVars, sideVars>>

\* run's loop, case sigCh: return nil.
DrvReturn ==
  /\ drvPc = "return"
  /\ drvPc' = "returnedNil"
  /\ UNCHANGED <<started, monPc, monCh, sent, lost, drvIn, sigCh, sd, handled>>
  /\ UNCHANGED <<pipeVars, chanVars, supVars, sideVars>>

\* SIGINT or SIGTERM arrives while run has not handled one: signal.Notify
\* puts it into sigCh if the one slot is free.
Signal ==
  /\ drvPc \in {"setup", "select"}
  /\ sigCh = 0
  /\ sigCh' = 1
  /\ UNCHANGED <<started, monPc, monCh, sent, lost, drvIn, drvPc, sd, handled>>
  /\ UNCHANGED <<pipeVars, chanVars, supVars, sideVars>>

\* run is entered with a loaded configuration.
InitDaemon ==
  /\ PipeIdle
  /\ ChannelsIdle
  /\ SupervisorIdle
  /\ started \in StartedChoices
  /\ monPc = [m \in Monitors |-> "off"]
  /\ monCh = [m \in Monitors |-> 0]
  /\ sent = [m \in Monitors |-> 0]
  /\ lost = [m \in Monitors |-> 0]
  /\ drvIn = [m \in Monitors |-> FALSE]
  /\ drvPc = "setup"
  /\ sigCh = 0
  /\ sd = {}
  /\ handled = [m \in Monitors \cup {"record"} |-> 0]
  /\ SideIdle

\* The daemon: the context is cancelled by run alone.
NextDaemon ==
  \/ RunSetup \/ RunSetupFails
  \/ SupForward \/ SupClose
  \/ \E m \in Monitors : MonSend(m)
  \/ \E m \in Monitors : MonLose(m)
  \/ \E m \in Monitors : MonExit(m)
  \/ DrvRecord
  \/ \E m \in Monitors : DrvMon(m)
  \/ DrvWatchdog
  \/ DrvSignal \/ DrvCancel \/ DrvReturn
  \/ Signal

\* The goroutines are scheduled, and a select whose ctx.Done() or sigCh case
\* stays ready takes it sooner or later.
FairDaemon ==
  /\ WF_vars(RunSetup \/ RunSetupFails)
  /\ WF_vars(SupClose)
  /\ \A m \in Monitors : WF_vars(MonExit(m))
  /\ WF_vars(DrvSignal)
  /\ WF_vars(DrvCancel)
  /\ WF_vars(DrvReturn)

SpecDaemon == InitDaemon /\ [][NextDaemon]_vars /\ FairDaemon

\* The loop and the monitors under a context that its owner may cancel at
\* any time, which makes the loop's closed-channel cases reachable.
NextLoop ==
  \/ NextDaemon
  \/ Cancel
  \/ DrvEntriesClosed
  \/ \E m \in Monitors : DrvMonClosed(m)

SpecLoop == InitDaemon /\ [][NextLoop]_vars /\ FairDaemon

----------------------------------------------------------------------------
(* The classifier *)

\* What the patterns of the classifier can find in a message: a message is
\* the set of the fragments it contains.  The last fragment is matched by no
\* pattern, the one before it by a GPU pattern only.
Fragments == {"oom-kill:", "segfault at", "Failed with result", "I/O error",
              "NVRM: Xid", "Connection refused"}

\* The pattern tables, each pattern named by a fragment that it matches.
oomPatterns == {"oom-kill:", "Out of memory: Killed process", "invoked oom-killer"}

crashPatterns == {"segfault at", "traps: trap", "dumped core"}

crashIdentifiers == {"systemd-coredump"}

serviceFailPatterns == {"entered failed state", "Failed with result",
                        "Main process exited"}

serviceIdentifiers == {"systemd"}

kernelHWPatterns == {"I/O error", "EXT4-fs error", "XFS error", "BTRFS error",
                     "Buffer I/O error", "blk_update_request: I/O error",
                     "mce: [Hardware Error]", "Machine check events logged",
                     "MCE", "NMI:", "EDAC error", "pcieport AER",
                     "Hardware Error"}

gpuPatterns == {"NVRM: Xid", "amdgpu GPU fault", "amdgpu GPU reset", "i915 GPU HANG",
                "GPU hang"}

\* The processes that are display servers or compositors.
compositorProcesses == {"Xorg", "Xwayland", "gnome-shell", "kwin_wayland", "kwin_x11",
                        "sway", "Hyprland", "mutter"}

kernelHWIdentifiers == {"kernel"}

\* Some pattern of the table matches the message.
MatchString(patterns, msg) == patterns \cap msg # {}

\* The records given to Classify: the message, the unit name that leads the
\* message (serviceUnitRe), the syslog identifier, the transport, the UNIT
\* field (absent, empty or set) and the record's systemd unit.
Entries ==
  [msg : SUBSET Fragments,
   lead : {"", "a.service"},
   ident : {"systemd-coredump", "systemd", "kernel", "sshd"},
   transport : {"kernel", "journal"},
   field : {<<>>, <<"">>, <<"b.service">>},
   unit : {"", "c.service"}]

\* event.New with the tier and the severity set by the caller.
NewEvent(tier, severity) ==
  [tier |-> tier, severity |-> severity, unit |-> "", gpu_event |-> ""]

classifyOOM(entry) ==
  IF MatchString(oomPatterns, entry.msg)
    THEN <<NewEvent("T1", "critical")>>
    ELSE <<>>

classifyCrash(entry) ==
  IF entry.ident \in crashIdentifiers
    THEN <<NewEvent("T2", "high")>>
    ELSE IF MatchString(crashPatterns, entry.msg)
      THEN <<NewEvent("T2", "high")>>
      ELSE <<>>

extractServiceUnit(entry) ==
  IF entry.lead # ""
    THEN entry.lead
    ELSE IF entry.field # <<>> THEN entry.field[1] ELSE ""

\* The unit of a service failure: extracted, else the record's systemd unit.
ServiceUnit(entry) ==
  IF extractServiceUnit(entry) = "" THEN entry.unit ELSE extractServiceUnit(entry)

classifyServiceFailureAnyUnit(entry) ==
  IF entry.ident \notin serviceIdentifiers
    THEN <<>>
    ELSE IF MatchString(serviceFailPatterns, entry.msg)
      THEN <<[NewEvent("T3", "medium") EXCEPT !.unit = ServiceUnit(entry)]>>
      ELSE <<>>

classifyServiceFailure(entry) ==
  IF entry.ident \notin serviceIdentifiers
    THEN <<>>
    ELSE IF MatchString(serviceFailPatterns, entry.msg) /\ ServiceUnit(entry) # ""
      THEN <<[NewEvent("T3", "medium") EXCEPT !.unit = ServiceUnit(entry)]>>
      ELSE <<>>

classifyKernelHWWarning(entry) ==
  IF entry.ident \notin kernelHWIdentifiers /\ entry.transport # "kernel"
    THEN <<>>
    ELSE IF MatchString(kernelHWPatterns, entry.msg)
      THEN <<NewEvent("T4", "warning")>>
      ELSE <<>>

classifyKernelHW(entry) ==
  IF entry.ident \notin kernelHWIdentifiers /\ entry.transport # "kernel"
    THEN <<>>
    ELSE IF MatchString(kernelHWPatterns, entry.msg)
      THEN <<NewEvent("T4", "high")>>
      ELSE <<>>

\* Classify with the kernel tier tried before the crash tier.
ClassifyKernelFirst(entry) ==
  IF classifyOOM(entry) # <<>> THEN classifyOOM(entry)
  ELSE IF classifyKernelHW(entry) # <<>> THEN classifyKernelHW(entry)
  ELSE IF classifyCrash(entry) # <<>> THEN classifyCrash(entry)
  ELSE classifyServiceFailure(entry)

\* Classifier.Classify: the tiers in priority order, nil as the empty sequence.
Classify(entry) ==
  IF classifyOOM(entry) # <<>> THEN classifyOOM(entry)
  ELSE IF classifyCrash(entry) # <<>> THEN classifyCrash(entry)
  ELSE IF classifyServiceFailure(entry) # <<>> THEN classifyServiceFailure(entry)
  ELSE classifyKernelHW(entry)

ClassifyPSIEvent == NewEvent("T5", "warning")

ClassifySMARTEvent == NewEvent("T4", "high")

ClassifyGPUEvent == [NewEvent("T4", "high") EXCEPT !.gpu_event = "true"]

\* Everything but the classifier's variables.
besideClassifier == <<pipeVars, chanVars, supVars, loopVars, enrVars, dbVars, psiVars, smartVars,
                      gpuVars, digVars, purges>>

\* One call of an entry point of the classifier.
DoClassify ==
  /\ called = ""
  /\ called' = "Classify"
  /\ events' = Classify(rec)
  /\ UNCHANGED <<rec, besideClassifier>>

DoClassifyPSI ==
  /\ called = ""
  /\ called' = "ClassifyPSIEvent"
  /\ events' = <<ClassifyPSIEvent>>
  /\ UNCHANGED <<rec, besideClassifier>>

DoClassifySMART ==
  /\ called = ""
  /\ called' = "ClassifySMARTEvent"
  /\ events' = <<ClassifySMARTEvent>>
  /\ UNCHANGED <<rec, besideClassifier>>

DoClassifyGPU ==
  /\ called = ""
  /\ called' = "ClassifyGPUEvent"
  /\ events' = <<ClassifyGPUEvent>>
  /\ UNCHANGED <<rec, besideClassifier>>

InitClassify ==
  /\ PipeIdle
  /\ ChannelsIdle
  /\ SupervisorIdle
  /\ LoopIdle
  /\ PSIIdle
  /\ SMARTIdle
  /\ MoreIdle
  /\ EnricherIdle
  /\ StoreIdle
  /\ rec \in Entries
  /\ called = ""
  /\ events = <<>>

NextClassify ==
  \/ DoClassify
  \/ DoClassifyPSI
  \/ DoClassifySMART
  \/ DoClassifyGPU

SpecClassify == InitClassify /\ [][NextClassify]_vars

----------------------------------------------------------------------------
(* The enricher *)

\* The summaries and detail blocks in which deviceRe finds a block device.
DeviceTexts == {"I/O error on /dev/sda"}

\* The events given to Enrich.
EnrichEvents ==
  [tier : {"T1", "T2", "T3", "T4", "T5"},
   pid : {0, 1234},
   process : {"", "vlc", "sway"},
   unit : {"", "a.service"},
   summary : {"Process Crash", "I/O error on /dev/sda"},
   gpu_event : {"", "true"},
   detail : {<<>>, <<"message">>}]

\* What the host answers while Enrich runs: coredumpctl and smartctl fail
\* (an error or the deadline of runCommand) or succeed, the journalctl calls
\* fail, print nothing or print lines, DetectGPUs finds gpus cards, and the
\* card's sysfs files give temperature temp (0 when they cannot be read).
Worlds ==
  [coredump : {"fail", "ok"},
   logs : {"fail", "empty", "lines"},
   smart : {"fail", "ok"},
   gpus : {0, 1},
   temp : {0, 60}]

\* The state of a call of Enrich: the event and the calls made so far.
Did(st, what) == [st EXCEPT !.trace = Append(st.trace, what)]

SetDetail(st, detail) == [st EXCEPT !.ev.detail = detail]

enrichOOMClears(st, w) ==
  LET q == Did(Did(st, "enrichOOM"), "journalctl -k") IN
  IF w.logs = "fail" THEN SetDetail(q, <<>>)
  ELSE SetDetail(q,
         (IF st.ev.process # "" THEN <<"killed by OOM killer">> ELSE <<>>)
           \o (IF w.logs = "lines" THEN <<"top memory consumers">> ELSE <<>>))

\* enrichOOM: the detail is replaced when the kernel log could be read.
enrichOOM(st, w) ==
  LET q == Did(Did(st, "enrichOOM"), "journalctl -k") IN
  IF w.logs = "fail" THEN q
  ELSE SetDetail(q,
         (IF st.ev.process # "" THEN <<"killed by OOM killer">> ELSE <<>>)
           \o (IF w.logs = "lines" THEN <<"top memory consumers">> ELSE <<>>))

\* enrichCrash: nothing for pid 0; else the detail is replaced when
\* coredumpctl answered.
enrichCrash(st, w) ==
  LET c == Did(st, "enrichCrash") IN
  IF st.ev.pid = 0 THEN c
  ELSE LET q == Did(c, "coredumpctl info") IN
       IF w.coredump = "fail" THEN q ELSE SetDetail(q, <<"crashed">>)

\* enrichGPU: the status of every card with a temperature is appended.
enrichGPU(st, w) ==
  LET q == Did(Did(st, "enrichGPU"), "DetectGPUs") IN
  IF w.gpus = 0 THEN q
  ELSE LET r == Did(q, "sysfs") IN
       IF w.temp > 0 THEN SetDetail(r, Append(r.ev.detail, "GPU status")) ELSE r

\* enrichCompositorCrash: for a compositor, the recent GPU kernel messages
\* and the GPU status are appended.
enrichCompositorCrash(st, w) ==
  LET c == Did(st, "enrichCompositorCrash") IN
  IF st.ev.process = "" THEN c
  ELSE IF st.ev.process \notin compositorProcesses THEN c
  ELSE LET q == Did(c, "journalctl -k --grep") IN
       enrichGPU(IF w.logs = "lines"
                   THEN SetDetail(q, Append(q.ev.detail, "recent GPU kernel messages"))
                   ELSE q, w)

\* enrichService: the detail is replaced by the unit's last log lines.
enrichService(st, w) ==
  LET c == Did(st, "enrichService") IN
  IF st.ev.unit = "" THEN c
  ELSE LET q == Did(c, "journalctl -u") IN
       IF w.logs = "lines" THEN SetDetail(q, <<"last log lines">>) ELSE q

extractDevice(e) ==
  IF e.summary \in DeviceTexts THEN "/dev/sda"
  ELSE IF \E i \in 1..Len(e.detail) : e.detail[i] \in DeviceTexts THEN "/dev/sda"
  ELSE ""

\* enrichKernelHW: the SMART status of the device named by the event is
\* appended.
enrichKernelHW(st, w) ==
  LET c == Did(st, "enrichKernelHW") IN
  IF extractDevice(st.ev) = "" THEN c
  ELSE LET q == Did(c, "smartctl") IN
       IF w.smart = "fail" THEN q ELSE SetDetail(q, Append(q.ev.detail, "SMART status"))

\* Enricher.Enrich: the switch on the tier.
Enrich(e, w) ==
  LET st == [ev |-> e, trace |-> <<>>] IN
  CASE e.tier = "T1" -> enrichOOM(st, w)
    [] e.tier = "T2" -> enrichCompositorCrash(enrichCrash(st, w), w)
    [] e.tier = "T3" -> enrichService(st, w)
    [] e.tier = "T4" ->
         IF e.gpu_event = "true" THEN enrichGPU(st, w) ELSE enrichKernelHW(st, w)
    [] OTHER -> st

\* The reads of the host that Enrich can make.
Queries == {"journalctl -k", "coredumpctl info", "journalctl -k --grep",
            "journalctl -u", "smartctl", "DetectGPUs", "sysfs"}

\* Everything but the enricher's variables.
besideEnricher == <<pipeVars, chanVars, supVars, loopVars, clsVars, dbVars, psiVars, smartVars,
                    gpuVars, digVars, purges>>

\* One call of Enrich.
DoEnrich ==
  /\ enriched = NoResult
  /\ enriched' = Enrich(given, world)
  /\ UNCHANGED <<given, world, besideEnricher>>

InitEnrich ==
  /\ PipeIdle
  /\ ChannelsIdle
  /\ SupervisorIdle
  /\ LoopIdle
  /\ PSIIdle
  /\ SMARTIdle
  /\ MoreIdle
  /\ ClassifierIdle
  /\ StoreIdle
  /\ given \in EnrichEvents
  /\ world \in Worlds
  /\ enriched = NoResult

NextEnrich == DoEnrich

SpecEnrich == InitEnrich /\ [][NextEnrich]_vars

----------------------------------------------------------------------------
(* The store's operations called directly: Insert, MarkNotified, Query,
   Purge, Count *)

MaxIds == 2           \* event ids given to Insert
MaxStored == 2        \* rows of the store a direct Query call is tried on

\* Timestamps of the events: half a second before StartTime, StartTime (a
\* whole second), half a second after it.
StoreTimes == {StartTime - 50, StartTime, StartTime + 50}

\* The retention given to Purge and the times at which it is called: the
\* cutoffs are StartTime and StartTime + 50.
Retention == 100

PurgeNows == {StartTime + Retention, StartTime + Retention + 50}

\* The events given to Insert, with the summary as the sequence of its words.
StoreEvents ==
  [id : 1..MaxIds, instance_id : {"h1"}, timestamp : StoreTimes, tier : {"T1"},
   process : {"vlc"}, unit : {""}, summary : {<<"OOM">>}]

\* The row of Insert with its summary column.
Row(e) == RowOf(e) @@ [summary |-> e.summary]

\* An INSERT that never meets a constraint.
InsertFailsNever(s, e) == FALSE

\* The INSERT fails on the PRIMARY KEY: a row has the id already.
InsertFails(s, e) == \E r \in s : r.id = e.id

\* DB.Purge: DELETE FROM events WHERE timestamp < cutoff, on the TEXT column.
Purge(s, cutoff) == {r \in s : ~TextLess(r.timestamp, FormatTime(cutoff))}

\* DB.Count: the number of rows.
Count(s) == Cardinality(s)

\* scanEvent: the event read back from a row.
scanEvent(r) ==
  [f \in (DOMAIN r) \ {"notified"} |->
     IF f = "timestamp" THEN ParseTime(r.timestamp) ELSE r[f]]

\* The WHERE clause Query builds for filter f; a zero field adds no condition.
Matches(r, f) ==
  /\ f.since # 0 => TextGeq(r.timestamp, FormatTime(f.since))
  /\ f.until # 0 => ~TextLess(FormatTime(f.until), r.timestamp)
  /\ f.tier # "" => r.tier = f.tier
  /\ f.instance_id # "" => r.instance_id = f.instance_id

\* The sequences of k different rows of M.
Orders(M, k) == {q \in [1..k -> M] : \A i, j \in 1..k : i # j => q[i] # q[j]}

\* ORDER BY timestamp DESC on the TEXT column.
Descending(q) ==
  \A i, j \in 1..Len(q) : i < j => ~TextLess(q[i].timestamp, q[j].timestamp)

\* The row sequences SQLite may answer Query(f) with: the matching rows in
\* descending order of the timestamp text, cut after limit rows when the
\* limit is positive; rows with equal timestamps come in any order.
QueryRows(s, f) ==
  LET M == {r \in s : Matches(r, f)}
      k == IF f.limit > 0 /\ f.limit < Cardinality(M) THEN f.limit ELSE Cardinality(M)
  IN  {q \in Orders(M, k) :
         /\ Descending(q)
         /\ \A r \in M : (\A i \in 1..k : q[i] # r) =>
              \A i \in 1..k : ~TextLess(q[i].timestamp, r.timestamp)}

\* The words handleEvent puts before the summary of an aggregated alert.
PrefixText(n) == IF n = 1 THEN "[x1]" ELSE IF n = 2 THEN "[x2]" ELSE "[xN]"

\* Everything but the variables of the store's direct calls.
besideStore == <<pipeVars, chanVars, supVars, loopVars, clsVars, enrVars, psiVars, smartVars,
                 gpuVars, digVars, purges>>

\* db.Insert(e) for an event with a new id or with the id of a stored row.
CallInsert ==
  /\ \E e \in StoreEvents :
       /\ (\E x \in inserted : x.id = e.id) => (\E r \in db : r.id = e.id)
       /\ IF InsertFails(db, e)
            THEN /\ ans' = [NoAnswer EXCEPT !.call = "Insert", !.arg = e.id, !.err = TRUE]
                 /\ UNCHANGED <<db, hand, inserted, cut>>
            ELSE /\ db' = db \cup {Row(e)}
                 /\ hand' = e
                 /\ inserted' = inserted \cup {e}
                 /\ cut' = [cut EXCEPT ![e.id] = 0]
                 /\ ans' = [NoAnswer EXCEPT !.call = "Insert", !.arg = e.id]
  /\ UNCHANGED <<dbClock, besideStore>>

\* db.MarkNotified(id) for any id.
CallMarkNotified ==
  /\ \E id \in 1..MaxIds :
       /\ db' = MarkNotified(db, id)
       /\ ans' = [NoAnswer EXCEPT !.call = "MarkNotified", !.arg = id]
  /\ UNCHANGED <<hand, inserted, cut, dbClock, besideStore>>

\* db.CheckCooldown for the event in hand.
CallCheckCooldown ==
  /\ hand # NoEvent
  /\ \E threshold \in 1..MaxThreshold :
       ans' = [NoAnswer EXCEPT !.call = "CheckCooldown", !.arg = hand.id,
                 !.dedup = CheckCooldown(db, hand, Window, threshold)]
  /\ UNCHANGED <<db, hand, inserted, cut, dbClock, besideStore>>

\* handleEvent after an aggregated decision: ev.Summary gets the "[xN]" prefix,
\* once for an event.
PrefixSummary ==
  /\ ans.call = "CheckCooldown"
  /\ ans.dedup.ShouldAlert /\ ans.dedup.Aggregated
  /\ Len(hand.summary) = 1
  /\ hand' = [hand EXCEPT !.summary = <<PrefixText(ans.dedup.RecentCount)>> \o @]
  /\ ans' = [NoAnswer EXCEPT !.call = "Prefix", !.arg = hand.id]
  /\ UNCHANGED <<db, inserted, cut, dbClock, besideStore>>

\* db.Purge(Retention) at a time not before the last call's.
CallPurge ==
  /\ \E now \in PurgeNows :
       /\ now >= dbClock
       /\ dbClock' = now
       /\ db' = Purge(db, now - Retention)
       /\ cut' = [id \in DOMAIN cut |->
                    IF (\E x \in inserted : x.id = id) /\ cut[id] < now - Retention
                      THEN now - Retention ELSE cut[id]]
       /\ ans' = [NoAnswer EXCEPT !.call = "Purge", !.arg = now - Retention,
                    !.n = Cardinality(db) - Cardinality(db')]
  /\ UNCHANGED <<hand, inserted, besideStore>>

\* db.Query(f).
CallQuery(f) ==
  /\ \E q \in QueryRows(db, f) :
       ans' = [NoAnswer EXCEPT !.call = "Query", !.filter = f,
                 !.rows = [i \in 1..Len(q) |-> scanEvent(q[i])]]
  /\ UNCHANGED <<db, hand, inserted, cut, dbClock, besideStore>>

\* db.Count().
CallCount ==
  /\ ans' = [NoAnswer EXCEPT !.call = "Count", !.n = Count(db)]
  /\ UNCHANGED <<db, hand, inserted, cut, dbClock, besideStore>>

InitStore ==
  /\ PipeIdle
  /\ ChannelsIdle
  /\ SupervisorIdle
  /\ LoopIdle
  /\ PSIIdle
  /\ SMARTIdle
  /\ MoreIdle
  /\ ClassifierIdle
  /\ EnricherIdle
  /\ db = {}
  /\ hand = NoEvent
  /\ inserted = {}
  /\ cut = [id \in 1..MaxIds |-> 0]
  /\ dbClock = 0
  /\ ans = NoAnswer

NextStore ==
  \/ CallInsert
  \/ CallMarkNotified
  \/ CallCheckCooldown
  \/ PrefixSummary
  \/ CallPurge
  \/ CallQuery(NoFilter)
  \/ CallCount

SpecStore == InitStore /\ [][NextStore]_vars

\* The stores of k rows, with ids 1..k, a Query is tried on.
RECURSIVE StoredOf(_)
StoredOf(k) ==
  IF k = 0 THEN { {} }
  ELSE { Insert(s, [id |-> k, instance_id |-> o[1], timestamp |-> t, tier |-> o[2],
                    process |-> "vlc", unit |-> ""]) :
           s \in StoredOf(k - 1), o \in Origins, t \in StoreTimes }

\* The filters given to Query: 0 is the zero time, "" the unset string.
Filters ==
  [since : {0, StartTime, StartTime + 50}, until : {0, StartTime, StartTime + 50},
   tier : {"", "T1"}, instance_id : {"", "h1"}, limit : {0, 1}]

InitQuery ==
  /\ PipeIdle
  /\ ChannelsIdle
  /\ SupervisorIdle
  /\ LoopIdle
  /\ PSIIdle
  /\ SMARTIdle
  /\ MoreIdle
  /\ ClassifierIdle
  /\ EnricherIdle
  /\ \E k \in 0..MaxStored : db \in StoredOf(k)
  /\ hand = NoEvent
  /\ inserted = {}
  /\ cut = <<>>
  /\ dbClock = 0
  /\ ans = NoAnswer

\* One call of Query on the store.
NextQuery == ans = NoAnswer /\ \E f \in Filters : CallQuery(f)

SpecQuery == InitQuery /\ [][NextQuery]_vars

----------------------------------------------------------------------------
(* The PSI monitor: PSIMonitor.poll and PSIMonitor.check *)

\* Capacity of the monitor's event channel in the model.
PsiCap == 2

\* The avg10 values a read of /proc/pressure/memory returns, and the
\* thresholds the monitor is created with.
PsiLevels == {0, 1, 2}

WarnLevels == {0, 1}

PSIStats == [SomeAvg10 : PsiLevels, FullAvg10 : PsiLevels]

\* time.NewTicker: running, nothing waiting in its channel.
NewTicker == [on |-> TRUE, C |-> 0]

\* Ticker.Stop and Ticker.Reset.  A tick already waiting in the ticker's
\* channel stays there or is discarded, depending on the Go release the
\* program is built with.
Stop(t) == { [on |-> FALSE, C |-> c] : c \in {0, t.C} }

Reset(t) == { [on |-> TRUE, C |-> c] : c \in {0, t.C} }

\* The receive from a ticker's channel.
Drained(t) == [t EXCEPT !.C = 0]

ExceededOrEqual(stats, m) ==
  stats.SomeAvg10 >= m.warnSomeAvg10 \/ stats.FullAvg10 >= m.warnFullAvg10

\* exceeded, as check computes it.
Exceeded(stats, m) ==
  stats.SomeAvg10 > m.warnSomeAvg10 \/ stats.FullAvg10 > m.warnFullAvg10

\* The outcomes of check's select on the event channel: the send when the
\* channel has room, the return when the context is done, the drop when
\* neither is ready.
SendOutcomes ==
  IF Len(psiCh) < PsiCap \/ psiCtx
    THEN (IF Len(psiCh) < PsiCap THEN {"sent"} ELSE {})
         \cup (IF psiCtx THEN {"cancelled"} ELSE {})
    ELSE {"dropped"}

\* PSIMonitor.check, called with the tickers as the receive left them.
check(nt, ht) ==
  \/ /\ checked' = [checked EXCEPT !.read = "fail", !.send = ""]
     /\ ticker' = nt
     /\ highFreqTicker' = ht
     /\ UNCHANGED <<inPressure, psiCh>>
  \/ \E stats \in PSIStats :
       LET exceeded == Exceeded(stats, psiMon) IN
       /\ IF exceeded /\ ~inPressure
            THEN /\ inPressure' = TRUE
                 /\ ticker' \in Stop(nt)
                 /\ highFreqTicker' \in Reset(ht)
            ELSE IF ~exceeded /\ inPressure
              THEN /\ inPressure' = FALSE
                   /\ highFreqTicker' \in Stop(ht)
                   /\ ticker' \in Reset(nt)
              ELSE /\ inPressure' = inPressure
                   /\ ticker' = nt
                   /\ highFreqTicker' = ht
       /\ IF exceeded
            THEN \E how \in SendOutcomes :
                   /\ psiCh' = IF how = "sent" THEN Append(psiCh, stats) ELSE psiCh
                   /\ checked' = [read |-> "ok", seen |-> TRUE, stats |-> stats,
                                  send |-> how]
            ELSE /\ psiCh' = psiCh
                 /\ checked' = [read |-> "ok", seen |-> TRUE, stats |-> stats,
                                send |-> ""]

besidePSI == <<pipeVars, chanVars, supVars, loopVars, clsVars, enrVars, dbVars, smartVars,
               gpuVars, digVars, purges>>

\* The runtime delivers a tick of the normal ticker.
TickNormal ==
  /\ ticker.on
  /\ ticker.C = 0
  /\ ticker' = [ticker EXCEPT !.C = 1]
  /\ UNCHANGED <<psiMon, inPressure, highFreqTicker, polling, psiCh, psiCtx, checked>>
  /\ UNCHANGED besidePSI

\* The runtime delivers a tick of the high-frequency ticker.
TickHighFreq ==
  /\ highFreqTicker.on
  /\ highFreqTicker.C = 0
  /\ highFreqTicker' = [highFreqTicker EXCEPT !.C = 1]
  /\ UNCHANGED <<psiMon, inPressure, ticker, polling, psiCh, psiCtx, checked>>
  /\ UNCHANGED besidePSI

\* poll: case <-ticker.C
PollTicker ==
  /\ polling
  /\ ticker.C = 1
  /\ check(Drained(ticker), highFreqTicker)
  /\ UNCHANGED <<psiMon, polling, psiCtx>>
  /\ UNCHANGED besidePSI

\* poll: case <-highFreqTicker.C
PollHighFreq ==
  /\ polling
  /\ highFreqTicker.C = 1
  /\ check(ticker, Drained(highFreqTicker))
  /\ UNCHANGED <<psiMon, polling, psiCtx>>
  /\ UNCHANGED besidePSI

\* poll: case <-ctx.Done(), with the deferred ticker.Stop() and close(ch).
PollDone ==
  /\ polling
  /\ psiCtx
  /\ polling' = FALSE
  /\ ticker' \in Stop(ticker)
  /\ UNCHANGED <<psiMon, inPressure, highFreqTicker, psiCh, psiCtx, checked>>
  /\ UNCHANGED besidePSI

\* The context of run is cancelled.
CancelPSI ==
  /\ ~psiCtx
  /\ psiCtx' = TRUE
  /\ UNCHANGED <<psiMon, inPressure, ticker, highFreqTicker, polling, psiCh, checked>>
  /\ UNCHANGED besidePSI

\* run receives an event from psiEvents.
ReceivePSI ==
  /\ psiCh # <<>>
  /\ psiCh' = Tail(psiCh)
  /\ UNCHANGED <<psiMon, inPressure, ticker, highFreqTicker, polling, psiCtx, checked>>
  /\ UNCHANGED besidePSI

\* PSIMonitor.Events has started poll, which has created its tickers.
InitPSI ==
  /\ PipeIdle
  /\ ChannelsIdle
  /\ SupervisorIdle
  /\ LoopIdle
  /\ ClassifierIdle
  /\ EnricherIdle
  /\ StoreIdle
  /\ SMARTIdle
  /\ MoreIdle
  /\ psiMon \in [warnSomeAvg10 : WarnLevels, warnFullAvg10 : WarnLevels]
  /\ inPressure = FALSE
  /\ ticker = NewTicker
  /\ highFreqTicker = StoppedTicker
  /\ polling = TRUE
  /\ psiCh = <<>>
  /\ psiCtx = FALSE
  /\ checked = NoCheck

NextPSI ==
  \/ TickNormal
  \/ TickHighFreq
  \/ PollTicker
  \/ PollHighFreq
  \/ PollDone
  \/ CancelPSI
  \/ ReceivePSI

SpecPSI == InitPSI /\ [][NextPSI]_vars

----------------------------------------------------------------------------
(* The SMART monitor: SMARTMonitor.poll and checkAll *)

\* Capacity of the monitor's event channel in the model.
SmartCap == 1

\* The statuses querySMART returns: all well, each counter non-zero in turn,
\* and a failing disk.
SMARTStatuses ==
  { [Healthy |-> TRUE,  ReallocCount |-> 0, PendCount |-> 0, ErrorCount |-> 0],
    [Healthy |-> TRUE,  ReallocCount |-> 1, PendCount |-> 0, ErrorCount |-> 0],
    [Healthy |-> TRUE,  ReallocCount |-> 0, PendCount |-> 1, ErrorCount |-> 0],
    [Healthy |-> TRUE,  ReallocCount |-> 0, PendCount |-> 0, ErrorCount |-> 1],
    [Healthy |-> FALSE, ReallocCount |-> 0, PendCount |-> 0, ErrorCount |-> 0] }

\* The lists detectDisks returns.
Detected == { <<"sda">>, <<"sda", "sdb">>, <<"sdb">> }

\* A comparison that leaves the error counter out.
statusChangedNoErrors(prev, curr) ==
  \/ prev.Healthy # curr.Healthy
  \/ prev.ReallocCount # curr.ReallocCount
  \/ prev.PendCount # curr.PendCount

statusChanged(prev, curr) ==
  \/ prev.Healthy # curr.Healthy
  \/ prev.ReallocCount # curr.ReallocCount
  \/ prev.PendCount # curr.PendCount
  \/ prev.ErrorCount # curr.ErrorCount

\* An update of lastStatus that is made only when the event was sent.
RememberedIfSent(dev, status, how) ==
  IF how = "sent" THEN [lastStatus EXCEPT ![dev] = [seen |-> TRUE, status |-> status]]
  ELSE lastStatus

\* m.lastStatus[dev] = status, after the select whose outcome was how.
Remembered(dev, status, how) ==
  [lastStatus EXCEPT ![dev] = [seen |-> TRUE, status |-> status]]

\* The outcomes of checkAll's select on the event channel.
SmartSendOutcomes ==
  IF Len(smartCh) < SmartCap \/ smartCtx
    THEN (IF Len(smartCh) < SmartCap THEN {"sent"} ELSE {})
         \cup (IF smartCtx THEN {"cancelled"} ELSE {})
    ELSE {"dropped"}

besideSMART == <<pipeVars, chanVars, supVars, loopVars, clsVars, enrVars, dbVars, psiVars,
                gpuVars, digVars, purges>>

\* poll's initial call of checkAll, or the one of case <-ticker.C: detectDisks
\* fails or returns the devices to query.
SmartCheckAll ==
  /\ smartPc \in {"start", "wait"}
  /\ \/ /\ smartPc' = "wait"
        /\ devices' = <<>>
     \/ /\ devices' \in Detected
        /\ smartPc' = "loop"
  /\ UNCHANGED <<lastStatus, smartCh, smartCtx, queried>>
  /\ UNCHANGED besideSMART

\* One iteration of checkAll's loop, for the first device left.
SmartCheckDevice ==
  /\ smartPc = "loop"
  /\ LET dev == Head(devices)
         prev == lastStatus[dev]
     IN
     \/ /\ queried' = [NoQuery EXCEPT !.err = TRUE]
        /\ devices' = Tail(devices)
        /\ smartPc' = IF Tail(devices) = <<>> THEN "wait" ELSE "loop"
        /\ UNCHANGED <<lastStatus, smartCh>>
     \/ \E status \in SMARTStatuses :
          LET changed == ~prev.seen \/ statusChanged(prev.status, status)
              due == \/ changed
                     \/ ~status.Healthy
                     \/ status.ReallocCount > 0
                     \/ status.PendCount > 0
          IN \E how \in (IF due THEN SmartSendOutcomes ELSE {""}) :
               /\ queried' = [err |-> FALSE, status |-> status, send |-> how,
                              Changed |-> changed]
               /\ smartCh' = IF how = "sent"
                               THEN Append(smartCh, [Status |-> status, Changed |-> changed])
                               ELSE smartCh
               /\ IF how = "cancelled"
                    THEN /\ devices' = <<>>
                         /\ smartPc' = "wait"
                         /\ lastStatus' = lastStatus
                    ELSE /\ devices' = Tail(devices)
                         /\ smartPc' = IF Tail(devices) = <<>> THEN "wait" ELSE "loop"
                         /\ lastStatus' = Remembered(dev, status, how)
  /\ UNCHANGED smartCtx
  /\ UNCHANGED besideSMART

\* poll: case <-ctx.Done(), with the deferred close(ch).
SmartDone ==
  /\ smartPc = "wait"
  /\ smartCtx
  /\ smartPc' = "done"
  /\ UNCHANGED <<lastStatus, devices, smartCh, smartCtx, queried>>
  /\ UNCHANGED besideSMART

\* The context of run is cancelled.
CancelSMART ==
  /\ ~smartCtx
  /\ smartCtx' = TRUE
  /\ UNCHANGED <<lastStatus, smartPc, devices, smartCh, queried>>
  /\ UNCHANGED besideSMART

\* run receives an event from smartEvents.
ReceiveSMART ==
  /\ smartCh # <<>>
  /\ smartCh' = Tail(smartCh)
  /\ UNCHANGED <<lastStatus, smartPc, devices, smartCtx, queried>>
  /\ UNCHANGED besideSMART

\* NewSMARTMonitor and Events: lastStatus is empty and poll is started.
InitSMART ==
  /\ PipeIdle
  /\ ChannelsIdle
  /\ SupervisorIdle
  /\ LoopIdle
  /\ ClassifierIdle
  /\ EnricherIdle
  /\ StoreIdle
  /\ PSIIdle
  /\ MoreIdle
  /\ lastStatus = [d \in SmartDevices |-> Unseen]
  /\ smartPc = "start"
  /\ devices = <<>>
  /\ smartCh = <<>>
  /\ smartCtx = FALSE
  /\ queried = NoQuery

NextSMART ==
  \/ SmartCheckAll
  \/ SmartCheckDevice
  \/ SmartDone
  \/ CancelSMART
  \/ ReceiveSMART

SpecSMART == InitSMART /\ [][NextSMART]_vars

----------------------------------------------------------------------------
(* The GPU monitor: GPUMonitor.poll and checkAll, and run's case gpuEvents *)

\* Capacity of the monitor's event channel in the model.
GpuCap == 1

\* Cards DetectGPUs finds at most.
MaxCards == 2

\* The thresholds the monitor is created with.
GPUSettings == { [tempWarn |-> 0, vramWarnPct |-> 0], [tempWarn |-> 70, vramWarnPct |-> 90] }

\* What ReadGPUTemp, ReadGPUVRAM and readNvidiaSMI leave in a GPUStatus: the
\* temperature unknown, below and at the threshold; the VRAM unknown, the
\* total alone unknown, the use alone unknown, below and at the threshold.
GPUStatuses ==
  { [Temperature |-> t, VRAMUsed |-> v[1], VRAMTotal |-> v[2]] :
      t \in {0, 69, 70},
      v \in { <<0, 0>>, <<50, 0>>, <<0, 100>>, <<899, 1000>>, <<90, 100>> } }

\* A check that takes the temperature 0 for a reading.
thermalDueAnyReading(gpu, m) == gpu.Temperature >= m.tempWarn

\* checkAll's condition for a thermal_warning.
thermalDue(gpu, m) == gpu.Temperature > 0 /\ gpu.Temperature >= m.tempWarn

\* A check that divides without looking at the total.
vramDueAnyTotal(gpu, m) ==
  /\ gpu.VRAMUsed > 0
  /\ (gpu.VRAMTotal = 0 \/ (gpu.VRAMUsed * 100) \div gpu.VRAMTotal >= m.vramWarnPct)

\* checkAll's condition for a vram_high.
vramDue(gpu, m) ==
  /\ gpu.VRAMTotal > 0
  /\ gpu.VRAMUsed > 0
  /\ (gpu.VRAMUsed * 100) \div gpu.VRAMTotal >= m.vramWarnPct

\* The outcomes of one of checkAll's selects on the event channel.
GpuSendOutcomes ==
  IF Len(gpuCh) < GpuCap \/ gpuCtx
    THEN (IF Len(gpuCh) < GpuCap THEN {"sent"} ELSE {})
         \cup (IF gpuCtx THEN {"cancelled"} ELSE {})
    ELSE {"dropped"}

\* The event of the card in hand, for the given reason.
GPUEvent(reason) ==
  [Reason |-> reason, VRAMUsed |-> polled.status.VRAMUsed,
   VRAMTotal |-> polled.status.VRAMTotal]

besideGPU == <<pipeVars, chanVars, supVars, loopVars, clsVars, enrVars, dbVars, psiVars,
              smartVars, digVars, purges>>

\* poll's initial call of checkAll, or the one of case <-ticker.C: DetectGPUs
\* returns the cards.
GpuCheckAll ==
  /\ gpuPc \in {"start", "wait"}
  /\ \E n \in 0..MaxCards :
       /\ cards' = n
       /\ gpuPc' = IF n = 0 THEN "wait" ELSE "read"
  /\ UNCHANGED <<gpuMon, gpuCh, gpuCtx, polled, drvGpu>>
  /\ UNCHANGED besideGPU

\* checkAll's loop: the card's temperature and VRAM are read.
GpuRead ==
  /\ gpuPc = "read"
  /\ \E status \in GPUStatuses : polled' = [status |-> status, thermal |-> "", vram |-> ""]
  /\ gpuPc' = "thermal"
  /\ UNCHANGED <<gpuMon, cards, gpuCh, gpuCtx, drvGpu>>
  /\ UNCHANGED besideGPU

\* checkAll's loop: the thermal check and its select.
GpuThermal ==
  /\ gpuPc = "thermal"
  /\ \E how \in (IF thermalDue(polled.status, gpuMon) THEN GpuSendOutcomes ELSE {"none"}) :
       /\ polled' = [polled EXCEPT !.thermal = how]
       /\ gpuCh' = IF how = "sent" THEN Append(gpuCh, GPUEvent("thermal_warning")) ELSE gpuCh
       /\ gpuPc' = IF how = "cancelled" THEN "wait" ELSE "vram"
       /\ cards' = IF how = "cancelled" THEN 0 ELSE cards
  /\ UNCHANGED <<gpuMon, gpuCtx, drvGpu>>
  /\ UNCHANGED besideGPU

\* checkAll's loop: the VRAM check and its select; the loop goes on to the
\* next card.
GpuVram ==
  /\ gpuPc = "vram"
  /\ \E how \in (IF vramDue(polled.status, gpuMon) THEN GpuSendOutcomes ELSE {"none"}) :
       /\ polled' = [polled EXCEPT !.vram = how]
       /\ gpuCh' = IF how = "sent" THEN Append(gpuCh, GPUEvent("vram_high")) ELSE gpuCh
       /\ cards' = IF how = "cancelled" THEN 0 ELSE cards - 1
       /\ gpuPc' = IF cards' = 0 THEN "wait" ELSE "read"
  /\ UNCHANGED <<gpuMon, gpuCtx, drvGpu>>
  /\ UNCHANGED besideGPU

\* poll: case <-ctx.Done(), with the deferred close(ch).
GpuDone ==
  /\ gpuPc = "wait"
  /\ gpuCtx
  /\ gpuPc' = "done"
  /\ UNCHANGED <<gpuMon, cards, gpuCh, gpuCtx, polled, drvGpu>>
  /\ UNCHANGED besideGPU

\* The context of run is cancelled.
CancelGPU ==
  /\ ~gpuCtx
  /\ gpuCtx' = TRUE
  /\ UNCHANGED <<gpuMon, gpuPc, cards, gpuCh, polled, drvGpu>>
  /\ UNCHANGED besideGPU

\* run's loop, case gpuEvents: the summary is built from the event; for a
\* vram_high the percentage is computed, and the division panics when the
\* total is 0.
ReceiveGPU ==
  /\ gpuCh # <<>>
  /\ LET e == Head(gpuCh)
     IN drvGpu' = IF e.Reason = "vram_high"
                    THEN IF e.VRAMTotal = 0
                           THEN [Reason |-> e.Reason, pct |-> 0, panic |-> TRUE]
                           ELSE [Reason |-> e.Reason,
                                 pct |-> (e.VRAMUsed * 100) \div e.VRAMTotal,
                                 panic |-> FALSE]
                    ELSE [Reason |-> e.Reason, pct |-> 0, panic |-> FALSE]
  /\ gpuCh' = Tail(gpuCh)
  /\ UNCHANGED <<gpuMon, gpuPc, cards, gpuCtx, polled>>
  /\ UNCHANGED besideGPU

\* NewGPUMonitor and Events: poll is started.
InitGPU ==
  /\ PipeIdle
  /\ ChannelsIdle
  /\ SupervisorIdle
  /\ LoopIdle
  /\ ClassifierIdle
  /\ EnricherIdle
  /\ StoreIdle
  /\ PSIIdle
  /\ SMARTIdle
  /\ DigestIdle
  /\ purges = 0
  /\ gpuMon \in GPUSettings
  /\ gpuPc = "start"
  /\ cards = 0
  /\ gpuCh = <<>>
  /\ gpuCtx = FALSE
  /\ polled = NoPoll
  /\ drvGpu = NoSummary

NextGPU ==
  \/ GpuCheckAll
  \/ GpuRead
  \/ GpuThermal
  \/ GpuVram
  \/ GpuDone
  \/ CancelGPU
  \/ ReceiveGPU

SpecGPU == InitGPU /\ [][NextGPU]_vars

----------------------------------------------------------------------------
(* The digest: BuildDigest, FormatDigest and formatBreakdown *)

\* Events a digest is built from at most.
MaxDigest == 3

\* The events the store's query hands to BuildDigest, as far as BuildDigest
\* reads them.
DigestKinds ==
  { [Tier |-> "T1", Process |-> "", Unit |-> "", Summary |-> "A"],
    [Tier |-> "T1", Process |-> "vlc", Unit |-> "", Summary |-> "A"],
    [Tier |-> "T2", Process |-> "vlc", Unit |-> "", Summary |-> "A"],
    [Tier |-> "T3", Process |-> "", Unit |-> "", Summary |-> "A"],
    [Tier |-> "T3", Process |-> "", Unit |-> "a.service", Summary |-> "A"],
    [Tier |-> "T4", Process |-> "", Unit |-> "", Summary |-> "A"],
    [Tier |-> "T4", Process |-> "", Unit |-> "", Summary |-> "B"],
    [Tier |-> "T5", Process |-> "", Unit |-> "", Summary |-> "A"] }

DigestInputs == UNION { [1..n -> DigestKinds] : n \in 0..MaxDigest }

\* BuildDigest's name for a process or unit.
NameOrUnknown(name) == IF name = "" THEN "unknown" ELSE name

\* m[name]++
Incremented(m, name) == [m EXCEPT ![name] = @ + 1]

\* The summary is in the sequence.
kernelSeen(breakdown, summary) == \E i \in 1..Len(breakdown) : breakdown[i] = summary

\* One round of BuildDigest's loop.
BuildStep(d, e) ==
  CASE e.Tier = "T1" ->
         [d EXCEPT !.OOMKills = @ + 1,
                   !.OOMBreakdown = Incremented(@, NameOrUnknown(e.Process))]
    [] e.Tier = "T2" ->
         [d EXCEPT !.Crashes = @ + 1,
                   !.CrashBreakdown = Incremented(@, NameOrUnknown(e.Process))]
    [] e.Tier = "T3" ->
         [d EXCEPT !.ServiceFailures = @ + 1,
                   !.ServiceBreakdown = Incremented(@, NameOrUnknown(e.Unit))]
    [] e.Tier = "T4" ->
         [d EXCEPT !.KernelHWErrors = @ + 1,
                   !.KernelBreakdown = IF kernelSeen(@, e.Summary)
                                         THEN @ ELSE Append(@, e.Summary)]
    [] e.Tier = "T5" -> [d EXCEPT !.MemPressure = @ + 1]
    [] OTHER -> d

RECURSIVE BuildFrom(_, _)
BuildFrom(d, evs) ==
  IF evs = <<>> THEN d ELSE BuildFrom(BuildStep(d, Head(evs)), Tail(evs))

\* BuildDigest(instanceID, events, since, until)
BuildDigest(evs) == BuildFrom([NoDigest EXCEPT !.built = TRUE], evs)

\* The entries formatBreakdown collects from the map.
BreakdownEntries(m) == { [name |-> n, count |-> m[n]] : n \in {x \in DOMAIN m : m[x] > 0} }

\* The orders sort.Slice may leave the entries in: the count never increases,
\* entries of one count come in any order.
formatBreakdown(m) ==
  LET entries == BreakdownEntries(m)
      n == Cardinality(entries)
  IN { q \in [1..n -> entries] :
         /\ \A i, j \in 1..n : (i # j) => q[i] # q[j]
         /\ \A i, j \in 1..n : (i < j) => q[i].count >= q[j].count }

besideDigest == <<pipeVars, chanVars, supVars, loopVars, clsVars, enrVars, dbVars, psiVars,
                 smartVars, gpuVars, purges>>

\* runDigest: the digest is built from the events queried.
DoBuildDigest ==
  /\ ~digest.built
  /\ digest' = BuildDigest(digestEvents)
  /\ UNCHANGED <<digestEvents, rendered>>
  /\ UNCHANGED besideDigest

\* runDigest: the digest is formatted; a tier with no event gets no
\* breakdown, and the kernel summaries are joined as BuildDigest left them.
DoFormatDigest ==
  /\ digest.built
  /\ ~rendered.done
  /\ \E oom \in formatBreakdown(digest.OOMBreakdown),
        crash \in formatBreakdown(digest.CrashBreakdown),
        service \in formatBreakdown(digest.ServiceBreakdown) :
       rendered' = [done |-> TRUE,
                    OOM |-> IF digest.OOMKills > 0 THEN oom ELSE <<>>,
                    Crash |-> IF digest.Crashes > 0 THEN crash ELSE <<>>,
                    Service |-> IF digest.ServiceFailures > 0 THEN service ELSE <<>>,
                    Kernel |-> IF digest.KernelHWErrors > 0 /\ Len(digest.KernelBreakdown) > 0
                                 THEN digest.KernelBreakdown ELSE <<>>]
  /\ UNCHANGED <<digestEvents, digest>>
  /\ UNCHANGED besideDigest

\* runDigest after the store's query.
InitDigest ==
  /\ PipeIdle
  /\ ChannelsIdle
  /\ SupervisorIdle
  /\ LoopIdle
  /\ ClassifierIdle
  /\ EnricherIdle
  /\ StoreIdle
  /\ PSIIdle
  /\ SMARTIdle
  /\ GPUIdle
  /\ purges = 0
  /\ digestEvents \in DigestInputs
  /\ digest = NoDigest
  /\ rendered = NoRendered

NextDigest == DoBuildDigest \/ DoFormatDigest

SpecDigest == InitDigest /\ [][NextDigest]_vars

----------------------------------------------------------------------------
(* run's loop with handleEvent running in it, step by step, beside the
   producers *)

MaxHandled == 2       \* events run passes to handleEvent in one run

\* The event a monitor's classifier helper returns.
MonitorKinds ==
  [ psi   |-> [tier |-> ClassifyPSIEvent.tier,   process |-> "", unit |-> ""],
    smart |-> [tier |-> ClassifySMARTEvent.tier, process |-> "", unit |-> ""],
    gpu   |-> [tier |-> ClassifyGPUEvent.tier,   process |-> "", unit |-> ""] ]

\* The events Classify returns for the journal's records in this run.
RecordKinds == {k \in EventKinds : k.process = "vlc"}

\* run calls handleEvent with an event of one of the given kinds.
EnterHandleEvent(kinds) ==
  /\ \E k \in kinds, d \in Steps :
       /\ ev' = [id |-> nextId, instance_id |-> cfg.instance, timestamp |-> clock + d,
                 tier |-> k.tier, process |-> k.process, unit |-> k.unit]
       /\ clock' = clock + d
  /\ nextId' = nextId + 1
  /\ dedup' = NoDedup
  /\ cur' = NoCall
  /\ pc' = "enrich"
  /\ UNCHANGED <<cfg, store, faults, posts, acked, log>>

\* run's loop, case entries, with handleEvent's call: Classify returns an
\* event or nil.
RunRecord ==
  /\ drvPc = "select"
  /\ pc = "idle"
  /\ out # <<>>
  /\ out' = Tail(out)
  /\ delivered' = Append(delivered, Head(out))
  /\ \/ /\ nextId <= MaxHandled
        /\ handled' = [handled EXCEPT !["record"] = @ + 1]
        /\ EnterHandleEvent(RecordKinds)
     \/ /\ handled' = handled
        /\ UNCHANGED pipeVars
  /\ UNCHANGED <<started, monPc, monCh, sent, lost, drvIn, drvPc, sigCh, sd>>
  /\ UNCHANGED <<maxRestarts, supPc, restarts, attempts, sessions, sess, held, supExit, received>>
  /\ UNCHANGED <<ctxDone, outClosed>>
  /\ UNCHANGED sideVars

\* run's loop, case of monitor m, with handleEvent's call.
RunMon(m) ==
  /\ drvPc = "select"
  /\ pc = "idle"
  /\ drvIn[m]
  /\ monCh[m] > 0
  /\ nextId <= MaxHandled
  /\ monCh' = [monCh EXCEPT ![m] = @ - 1]
  /\ handled' = [handled EXCEPT ![m] = @ + 1]
  /\ EnterHandleEvent({MonitorKinds[m]})
  /\ UNCHANGED <<started, monPc, sent, lost, drvIn, drvPc, sigCh, sd>>
  /\ UNCHANGED <<chanVars, supVars, sideVars>>

\* handleEvent: enr.Enrich(ctx, ev), which reads and writes the event only.
StepEnrich ==
  /\ pc = "enrich"
  /\ pc' = "insert"
  /\ UNCHANGED <<cfg, store, clock, nextId, faults, ev, dedup, cur, posts, acked, log>>
  /\ UNCHANGED procVars

\* run is entered with a configuration that has a notification URL; the
\* store is empty.
InitRun ==
  /\ cfg \in {c \in Configs : /\ c.url = UrlValid
                               /\ c.threshold = 1
                               /\ c.alert_tiers = {"T1", "T2"}}
  /\ store = {}
  /\ clock = StartTime
  /\ nextId = 1
  /\ faults = 0
  /\ pc = "idle"
  /\ ev = NoEvent
  /\ dedup = NoDedup
  /\ cur = NoCall
  /\ posts = [i \in EventIds |-> 0]
  /\ acked = {}
  /\ log = <<>>
  /\ ChannelsIdle
  /\ SupervisorIdle
  /\ started \in StartedChoices
  /\ monPc = [m \in Monitors |-> "off"]
  /\ monCh = [m \in Monitors |-> 0]
  /\ sent = [m \in Monitors |-> 0]
  /\ lost = [m \in Monitors |-> 0]
  /\ drvIn = [m \in Monitors |-> FALSE]
  /\ drvPc = "setup"
  /\ sigCh = 0
  /\ sd = {}
  /\ handled = [m \in Monitors \cup {"record"} |-> 0]
  /\ SideIdle

\* The producers and run's goroutine while the daemon is up (no signal, no
\* cancellation); the loop's cases are taken only when handleEvent has
\* returned.
NextRun ==
  \/ RunSetup
  \/ SupForward
  \/ \E m \in Monitors : MonSend(m)
  \/ \E m \in Monitors : MonLose(m)
  \/ RunRecord
  \/ \E m \in Monitors : RunMon(m)
  \/ StepEnrich
  \/ DoInsert
  \/ DoCheckCooldown
  \/ DoReport
  \/ DoMarkNotified

SpecRun == InitRun /\ [][NextRun]_vars

----------------------------------------------------------------------------
(* run from its entry: store.Open, the retention purge, then the loop *)

\* The retentions of the configuration: none, and Retention.
Retentions == {0, Retention}

\* Rows an earlier run of the daemon left in the database: one older than
\* the retention at StartTime, one younger.
EarlierRows ==
  { [id |-> 100 + i, instance_id |-> "h1",
     timestamp |-> FormatTime(StartTime - Retention + (IF i = 1 THEN -50 ELSE 50)),
     tier |-> "T1", process |-> "vlc", unit |-> "", notified |-> TRUE] : i \in 1..2 }

\* A run that purges whatever the retention is.
PurgeDueAlways(c) == TRUE

\* run purges only with a positive retention.
PurgeDue(c) == c.retention > 0

besideBoot == <<clsVars, enrVars, dbVars, psiVars, smartVars, gpuVars, digVars>>

\* run: dataDirectory and store.Open; on an error run returns and the
\* deferred cancel runs.
RunOpen ==
  /\ drvPc = "open"
  /\ \/ drvPc' = "purge" /\ ctxDone' = ctxDone
     \/ drvPc' = "returnedErr" /\ ctxDone' = TRUE
  /\ UNCHANGED <<started, monPc, monCh, sent, lost, drvIn, sigCh, sd, handled>>
  /\ UNCHANGED <<out, outClosed>>
  /\ UNCHANGED <<pipeVars, supVars, besideBoot, purges>>

\* run: the retention purge on startup; an error of db.Purge is logged only.
RunPurge ==
  /\ drvPc = "purge"
  /\ IF PurgeDue(cfg)
       THEN /\ purges' = purges + 1
            /\ \/ store' = Purge(store, clock - cfg.retention)
               \/ store' = store
       ELSE UNCHANGED <<store, purges>>
  /\ drvPc' = "setup"
  /\ UNCHANGED <<cfg, clock, nextId, faults, pc, ev, dedup, cur, posts, acked, log>>
  /\ UNCHANGED <<started, monPc, monCh, sent, lost, drvIn, sigCh, sd, handled>>
  /\ UNCHANGED <<chanVars, supVars, besideBoot>>

\* run is entered: the database holds the rows of an earlier run, the
\* configuration has a retention or none.
InitBoot ==
  /\ cfg \in { c @@ [retention |-> d] :
                 c \in {x \in Configs : /\ x.url = UrlValid
                                        /\ x.threshold = 1
                                        /\ x.alert_tiers = {"T1", "T2"}},
                 d \in Retentions }
  /\ store = EarlierRows
  /\ clock = StartTime
  /\ nextId = 1
  /\ faults = 0
  /\ pc = "idle"
  /\ ev = NoEvent
  /\ dedup = NoDedup
  /\ cur = NoCall
  /\ posts = [i \in EventIds |-> 0]
  /\ acked = {}
  /\ log = <<>>
  /\ ChannelsIdle
  /\ SupervisorIdle
  /\ started = {"gpu"}
  /\ monPc = [m \in Monitors |-> "off"]
  /\ monCh = [m \in Monitors |-> 0]
  /\ sent = [m \in Monitors |-> 0]
  /\ lost = [m \in Monitors |-> 0]
  /\ drvIn = [m \in Monitors |-> FALSE]
  /\ drvPc = "open"
  /\ sigCh = 0
  /\ sd = {}
  /\ handled = [m \in Monitors \cup {"record"} |-> 0]
  /\ SideIdle

NextBoot ==
  \/ RunOpen
  \/ RunPurge
  \/ NextRun

SpecBoot == InitBoot /\ [][NextBoot]_vars

----------------------------------------------------------------------------
(* Claims *)

\* C1: when handleEvent processes, from an empty store and without database
\* errors, threshold + 2 events that share one cooldown key and lie within
\* one window, exactly the 1st and the (threshold + 1)th get ShouldAlert and
\* only the (threshold + 1)th is aggregated.
C1_FirstAndThresholdAlert ==
  LET n == cfg.threshold
      Key(e) == <<e.instance_id, e.tier, IF e.unit # "" THEN e.unit ELSE e.process>>
  IN  ( /\ Len(log) >= n + 2
        /\ \A i \in 1..(n + 2) :
             /\ Key(log[i].ev) = Key(log[1].ev)
             /\ ~log[i].call.insertErr
             /\ ~log[i].call.cooldownErr
        /\ log[n + 2].ev.timestamp - log[1].ev.timestamp <= cfg.window )
      => \A i \in 1..(n + 2) :
           /\ log[i].dedup.ShouldAlert <=> (i = 1 \/ i = n + 1)
           /\ log[i].dedup.Aggregated <=> (i = n + 1)

\* C2: a successful CheckCooldown(e, W, N) returns, for c = the number of
\* stored events that match e's cooldown key and whose timestamp is at or
\* after e.timestamp - W: alert without aggregation when c = 0, an aggregated
\* alert when c = N, no alert otherwise; RecentCount is c and the store is
\* left as it was.
C2_CooldownTable ==
  [][ (pc = "cooldown" /\ cur'.cooldowns = cur.cooldowns + 1 /\ ~cur'.cooldownErr)
      => LET c == Cardinality({ r \in store :
                     /\ r.instance_id = ev.instance_id
                     /\ r.tier = ev.tier
                     /\ IF ev.unit # "" THEN r.unit = ev.unit ELSE r.process = ev.process
                     /\ ParseTime(r.timestamp) >= ev.timestamp - cfg.window })
         IN  /\ dedup'.RecentCount = c
             /\ dedup'.ShouldAlert <=> (c = 0 \/ c = cfg.threshold)
             /\ dedup'.Aggregated <=> (c = cfg.threshold)
             /\ store' = store ]_vars

\* C3: the decision of CheckCooldown for e depends only on the stored events
\* with e's instance_id, e's tier and e's unit (e's process when e has no
\* unit): the stored events with another cooldown key do not change it.
C3_OtherKeysIgnored ==
  [][ (pc = "cooldown" /\ cur'.cooldowns = cur.cooldowns + 1 /\ ~cur'.cooldownErr)
      => LET same == { r \in store :
                         /\ r.instance_id = ev.instance_id
                         /\ r.tier = ev.tier
                         /\ IF ev.unit # "" THEN r.unit = ev.unit
                            ELSE r.process = ev.process }
         IN  dedup' = CheckCooldown(same, ev, cfg.window, cfg.threshold) ]_vars

\* C4: in a run of same-key events handled one after another without insert
\* errors, each less than a window after the previous one, no event is
\* alerted once an event of the run got the aggregated alert.
C4_AtMostOneAggregate ==
  LET Key(e) == <<e.instance_id, e.tier, IF e.unit # "" THEN e.unit ELSE e.process>>
  IN  \A i, j \in 1..Len(log) :
        ( /\ i < j
          /\ \A k \in i..j : Key(log[k].ev) = Key(log[i].ev) /\ ~log[k].call.insertErr
          /\ \A k \in i..(j - 1) :
               log[k + 1].ev.timestamp - log[k].ev.timestamp < cfg.window
          /\ log[i].dedup.ShouldAlert
          /\ log[i].dedup.Aggregated )
        => ~log[j].dedup.ShouldAlert

\* C5: a row is marked notified only if a POST for its event was sent and
\* answered with a 2xx status.
C5_NotifiedOnlyIfDelivered ==
  \A r \in store : r.notified => (r.id \in acked /\ posts[r.id] >= 1)

\* C6: when Report returns an error for an event, handleEvent returns without
\* calling MarkNotified and without a second Report or POST, the event's row
\* is never marked notified, and the rows of such events are counted like
\* any other row by the cooldown checks of the events handled later: every
\* successful check counts every event inserted so far that matches.
C6_FailedReportNotMarked ==
  /\ \A i \in 1..Len(log) :
       log[i].call.reportErr =>
         /\ log[i].call.marks = 0
         /\ log[i].call.reports = 1
         /\ log[i].call.requests <= 1
         /\ posts[log[i].ev.id] = log[i].call.requests
         /\ \A r \in store : r.id = log[i].ev.id => ~r.notified
  /\ \A j \in 1..Len(log) :
       ~log[j].call.cooldownErr =>
         log[j].dedup.RecentCount =
           Cardinality({ k \in 1..j :
             /\ ~log[k].call.insertErr
             /\ log[k].ev.instance_id = log[j].ev.instance_id
             /\ log[k].ev.tier = log[j].ev.tier
             /\ TextGeq(FormatTime(log[k].ev.timestamp),
                        FormatTime(log[j].ev.timestamp - cfg.window))
             /\ IF log[j].ev.unit # "" THEN log[k].ev.unit = log[j].ev.unit
                ELSE IF log[j].ev.process # "" THEN log[k].ev.process = log[j].ev.process
                ELSE TRUE })
  /\ (pc = "mark" => ~cur.reportErr)

\* C6 witness: an event whose notification failed (its POST was sent and not
\* answered with 2xx) is stored unmarked, and a later event of the same
\* subject has been handled with that row in its count.
C6_Witness ==
  \E i, j \in 1..Len(log) :
    /\ i < j
    /\ log[i].call.reportErr
    /\ log[i].call.requests = 1
    /\ ~log[i].call.insertErr
    /\ log[j].ev.tier = log[i].ev.tier
    /\ log[j].ev.process = log[i].ev.process
    /\ log[j].ev.unit = log[i].ev.unit
    /\ ~log[j].call.cooldownErr
    /\ ~log[j].call.insertErr
    /\ log[j].dedup.RecentCount = j - i + 1
    /\ j - i + 1 >= 2

\* C7: Report is called only after the insert of the event was attempted,
\* and a MarkNotified call leaves the set of row ids as it is and changes
\* nothing but the notified flag of the row with the event's id, which it
\* sets; with no such row it changes nothing.
C7_NotifyAfterInsert ==
  [][ /\ (cur'.reports = cur.reports + 1) => (cur.inserts = 1 /\ pc = "report")
      /\ (cur'.marks = cur.marks + 1) =>
           /\ { r.id : r \in store' } = { r.id : r \in store }
           /\ \A r \in store :
                \/ r \in store'
                \/ /\ r.id = ev.id
                   /\ ~r.notified
                   /\ [r EXCEPT !.notified = TRUE] \in store'
           /\ Cardinality(store') = Cardinality(store)
           /\ (\A r \in store : r.id # ev.id) => store' = store ]_vars

\* C7 witness: MarkNotified has been called for an event whose insert failed,
\* so that its id is unknown to the store, while the row of an earlier event
\* is marked notified.
C7_Witness ==
  /\ pc = "idle"
  /\ cur.marks = 1
  /\ cur.insertErr
  /\ \A r \in store : r.id # ev.id
  /\ \E r \in store : r.notified

\* C8 as stated: Report sends no request and returns nil when no URL is
\* configured or the tier is not alerted; for every other event it sends
\* exactly one POST and returns an error iff the POST is not answered 2xx.
C8_ReportOnePost ==
  [][ (cur'.reports = cur.reports + 1) =>
        IF cfg.url = "" \/ ~(\E t \in cfg.alert_tiers : Fold(t) = Fold(ev.tier))
        THEN /\ cur'.requests = cur.requests
             /\ posts' = posts
             /\ ~cur'.reportErr
        ELSE /\ cur'.requests = cur.requests + 1
             /\ posts' = [posts EXCEPT ![ev.id] = @ + 1]
             /\ cur'.reportErr <=> (ev.id \notin acked') ]_vars

\* C8 amended: as C8, except that for a configured URL that cannot be made
\* into a request Report sends no POST and returns an error.
C8_ReportAtMostOnePost ==
  [][ (cur'.reports = cur.reports + 1) =>
        IF cfg.url = "" \/ ~(\E t \in cfg.alert_tiers : Fold(t) = Fold(ev.tier))
        THEN /\ cur'.requests = cur.requests
             /\ posts' = posts
             /\ ~cur'.reportErr
        ELSE IF cfg.url = UrlMalformed
        THEN /\ cur'.requests = cur.requests
             /\ posts' = posts
             /\ cur'.reportErr
        ELSE /\ cur'.requests = cur.requests + 1
             /\ posts' = [posts EXCEPT ![ev.id] = @ + 1]
             /\ cur'.reportErr <=> (ev.id \notin acked') ]_vars

\* C8 witness: with a valid URL, Report has returned nil without a request
\* for an event whose tier is not alerted, after an alerted event was posted.
C8_Witness ==
  /\ pc = "mark"
  /\ cfg.url = UrlValid
  /\ ~ShouldAlert(cfg, ev.tier)
  /\ cur.reports = 1
  /\ cur.requests = 0
  /\ posts[ev.id] = 0
  /\ \E i \in EventIds : posts[i] = 1

\* C9: every event handed to handleEvent gets exactly one insert attempt,
\* made before the cooldown decision, whatever the decision and the result
\* of the notification.
C9_OneInsertPerEvent ==
  /\ \A i \in 1..Len(log) : log[i].call.inserts = 1
  /\ pc \in {"cooldown", "report", "mark"} => cur.inserts = 1
  /\ pc = "insert" => cur.inserts = 0
  /\ Len(log) = IF pc = "idle" THEN nextId - 1 ELSE nextId - 2

\* C9 witness: three events have been handled, one suppressed, one with an
\* aggregated alert and one whose notification failed.
C9_Witness ==
  /\ pc = "idle"
  /\ \E i \in 1..Len(log) : ~log[i].dedup.ShouldAlert /\ ~log[i].call.cooldownErr
  /\ \E i \in 1..Len(log) : log[i].dedup.Aggregated /\ log[i].call.marks = 1
  /\ \E i \in 1..Len(log) : log[i].call.reportErr

\* C10: an event whose CheckCooldown failed gets no Report, no POST and no
\* MarkNotified, its insert has been attempted, and handleEvent returns.
C10_CooldownErrorNoAlert ==
  /\ \A i \in 1..Len(log) :
       log[i].call.cooldownErr =>
         /\ log[i].call.inserts = 1
         /\ log[i].call.reports = 0
         /\ log[i].call.requests = 0
         /\ log[i].call.marks = 0
         /\ posts[log[i].ev.id] = 0
         /\ \A r \in store : r.id = log[i].ev.id => ~r.notified
  /\ cur.cooldownErr => (pc = "idle" /\ cur.inserts = 1)

\* C10 witness: an event whose cooldown check failed is stored, and the
\* driver has handled the next event.
C10_Witness ==
  \E i \in 1..Len(log) :
    /\ log[i].call.cooldownErr
    /\ ~log[i].call.insertErr
    /\ i < Len(log)
    /\ \E r \in store : r.id = log[i].ev.id

\* The current session is over: its start failed, or its goroutine has closed
\* its channel, or the supervisor is already waiting to start the next one.
SessionOver ==
  \/ supPc \in {"waitFail", "backoff"}
  \/ supPc \in {"recv", "send"} /\ ~sess.live

\* C11: with restart cap 0 the output is closed only after the context has
\* been cancelled, the top of the loop is reached again only through a
\* backoff, and a session that ended or failed to start while the context is
\* not cancelled is followed by a fresh start (or by cancellation).
C11_UnlimitedRestarts ==
  /\ [](maxRestarts = 0 /\ outClosed => ctxDone)
  /\ [][supPc' = "check" /\ supPc # "check" => supPc \in {"waitFail", "backoff"}]_vars
  /\ \A n \in 1..(MaxAttempts - 1) :
       (maxRestarts = 0 /\ attempts = n /\ SessionOver /\ ~ctxDone)
         ~> (attempts > n \/ ctxDone)

\* Cap 0: the last session the model allows was started after earlier ones
\* had ended, and the output is still open.
C11_Witness ==
  /\ maxRestarts = 0
  /\ ~ctxDone
  /\ ~outClosed
  /\ attempts = MaxAttempts
  /\ sessions >= 2
  /\ supPc = "recv"

\* C12: with restart cap N > 0, no cancellation and no failed start, the
\* supervisor has run N+1 sessions (N restarts) when it gives up.
C12_CapAllowsNRestarts ==
  (supExit = "cap" /\ ~ctxDone /\ sessions = attempts) => sessions = maxRestarts + 1

\* C13: once the context is cancelled the supervisor returns and closes its
\* output, and nothing is sent on the output after it has been closed.
C13_CancelTerminates ==
  /\ ctxDone ~> (outClosed /\ supPc = "done")
  /\ [][outClosed => (out' = out \/ (out # <<>> /\ out' = Tail(out)))]_vars

\* Cancelled while blocked on a full output: the goroutine has returned.
C13_Witness ==
  /\ ctxDone
  /\ outClosed
  /\ supExit = "send"
  /\ Len(out) = OutCap

\* The record the supervisor holds while it is in the inner select.
InHand == IF supPc = "send" THEN <<held>> ELSE <<>>

\* C14: while the context is not cancelled the records received from the
\* sessions are exactly the records read from the output, then those in the
\* output, then the one in hand, in this order; the output never holds more
\* than its capacity; records of an earlier session precede those of a later.
C14_ForwardedOnceInOrder ==
  /\ Len(out) <= OutCap
  /\ ~ctxDone => received = delivered \o out \o InHand
  /\ \A i, j \in DOMAIN received :
       i < j => \/ received[i][1] < received[j][1]
                \/ received[i][1] = received[j][1] /\ received[i][2] < received[j][2]

\* The supervisor is blocked on a full output with a record of the second
\* session in hand.
C14_Witness ==
  /\ ~ctxDone
  /\ supPc = "send"
  /\ Len(out) = OutCap
  /\ held[1] = 2

\* C15: a failed start leaves the output open; the wait after it ends either
\* by cancellation or by the backoff with exactly one restart counted and a
\* return to the top of the loop; there the start is tried again unless the
\* counted restarts have used up the cap.
C15_FailedStartRetried ==
  /\ [](supPc = "waitFail" => ~outClosed)
  /\ [][supPc = "waitFail" /\ supPc' # "waitFail" =>
          \/ ctxDone /\ supPc' = "done"
          \/ restarts' = restarts + 1 /\ supPc' = "check" /\ ~outClosed']_vars
  /\ [][supPc = "check" /\ supPc' # "check" /\ (maxRestarts = 0 \/ restarts < maxRestarts) =>
          attempts' = attempts + 1 /\ ~outClosed']_vars

\* The very first start failed, was counted, and the retry gave a session.
C15_Witness ==
  /\ attempts = 2
  /\ sessions = 1
  /\ restarts = 1
  /\ supPc = "recv"
  /\ ~outClosed

\* C16: a monitor's channel never holds more than its capacity; a monitor
\* that has an event to emit can always take the emission step (it sends or
\* drops, it never waits); an event is dropped only when the channel is full
\* or the context is done, and the monitor stays in its poll loop; an
\* emission changes nothing of run's loop, of the record channel or of
\* another monitor.
C16_EmissionNeverBlocks ==
  /\ [](\A m \in Monitors : monCh[m] <= MonCap)
  /\ [](\A m \in Monitors :
          (monPc[m] = "poll" /\ Emits < MaxEmits) => ENABLED (MonSend(m) \/ MonLose(m)))
  /\ [][\A m \in Monitors :
          lost'[m] # lost[m] =>
            /\ monCh[m] = MonCap \/ ctxDone
            /\ monCh'[m] = monCh[m]
            /\ monPc'[m] = "poll"]_vars
  /\ [][\A m \in Monitors :
          (sent'[m] # sent[m] \/ lost'[m] # lost[m]) =>
            /\ UNCHANGED <<drvPc, drvIn, handled, sd, sigCh, chanVars, supVars>>
            /\ \A o \in Monitors \ {m} :
                 monCh'[o] = monCh[o] /\ monPc'[o] = monPc[o]
                 /\ sent'[o] = sent[o] /\ lost'[o] = lost[o]]_vars

\* A monitor has dropped an event on its full channel and is still polling,
\* while run's loop is serving.
C16_Witness ==
  \E m \in Monitors :
    /\ lost[m] >= 1
    /\ monCh[m] = MonCap
    /\ monPc[m] = "poll"
    /\ ~ctxDone
    /\ drvPc = "select"

\* C17: once the context is done every started monitor closes its channel,
\* and sends nothing on it afterwards; run's loop sets a channel variable to
\* nil only for a closed and drained channel, handling nothing and staying in
\* the loop with its other inputs as they were; every monitor event it has
\* handled was sent by the monitor.
C17_MonitorsCloseAndLoopGoesOn ==
  /\ \A m \in Monitors : (ctxDone /\ monPc[m] = "poll") ~> (monPc[m] = "done")
  /\ [][\A m \in Monitors :
          monPc[m] = "done" =>
            monPc'[m] = "done" /\ sent'[m] = sent[m] /\ monCh'[m] <= monCh[m]]_vars
  /\ [][\A m \in Monitors :
          (drvIn[m] /\ ~drvIn'[m]) =>
            /\ monPc[m] = "done" /\ monCh[m] = 0
            /\ handled' = handled
            /\ drvPc = "select" /\ drvPc' = "select"
            /\ out' = out
            /\ \A o \in Monitors \ {m} : drvIn'[o] = drvIn[o] /\ monCh'[o] = monCh[o]]_vars
  /\ [](\A m \in Monitors : handled[m] + monCh[m] = sent[m])

\* A started monitor has closed its channel and the loop has disabled that
\* input, while it still selects with a record and another monitor's event
\* waiting.
C17_Witness ==
  \E m \in started :
    /\ monPc[m] = "done"
    /\ ~drvIn[m]
    /\ sent[m] >= 1
    /\ drvPc = "select"
    /\ out # <<>>
    /\ \E o \in started \ {m} : drvIn[o] /\ monCh[o] > 0

\* C18: when run is about to cancel the context it has notified STOPPING=1
\* and the context is not yet cancelled; from the handling of the signal on
\* no handleEvent runs and run goes on to return nil; a signal delivered
\* while run is setting up or selecting is handled in the end (unless the
\* set-up fails).
C18_Shutdown ==
  /\ [](drvPc = "cancel" => ("STOPPING=1" \in sd /\ ~ctxDone))
  /\ [][drvPc \notin {"setup", "select"} => handled' = handled]_vars
  /\ [][(drvPc \in {"cancel", "return"}) => (drvPc' \in {"cancel", "return", "returnedNil"})]_vars
  /\ (drvPc = "cancel") ~> (drvPc = "returnedNil" /\ ctxDone)
  /\ (sigCh = 1 /\ drvPc \in {"setup", "select"})
       ~> ((sigCh = 0 /\ "STOPPING=1" \in sd) \/ drvPc = "returnedErr")

\* run has handled an event and then returned nil after a signal, leaving a
\* record and a monitor event unserved in their channels.
C18_Witness ==
  /\ drvPc = "returnedNil"
  /\ "STOPPING=1" \in sd
  /\ ctxDone
  /\ \E x \in DOMAIN handled : handled[x] >= 1
  /\ out # <<>>
  /\ \E m \in Monitors : monCh[m] > 0

\* The tiers in the order in which Classify tries them.
TierOrder == <<"T1", "T2", "T3", "T4">>

\* The precondition of a tier on a record: any record for T1 and T2, the
\* systemd identifier for T3, the kernel identifier or transport for T4.
Precondition(tier, entry) ==
  CASE tier = "T3" -> entry.ident \in serviceIdentifiers
    [] tier = "T4" -> entry.ident \in kernelHWIdentifiers \/ entry.transport = "kernel"
    [] OTHER -> TRUE

\* The match patterns of a tier.
PatternsOf(tier) ==
  CASE tier = "T1" -> oomPatterns
    [] tier = "T2" -> crashPatterns
    [] tier = "T3" -> serviceFailPatterns
    [] OTHER -> kernelHWPatterns

\* A tier qualifies when its precondition holds and one of its patterns
\* matches the message.
Qualifies(tier, entry) ==
  Precondition(tier, entry) /\ MatchString(PatternsOf(tier), entry.msg)

\* A tier qualifies as above, except that T2 also qualifies by the identifier
\* systemd-coredump alone and T3 qualifies only with a unit name found.
QualifiesInCode(tier, entry) ==
  CASE tier = "T2" -> entry.ident \in crashIdentifiers \/ Qualifies(tier, entry)
    [] tier = "T3" -> Qualifies(tier, entry) /\ ServiceUnit(entry) # ""
    [] OTHER -> Qualifies(tier, entry)

SeverityOf(tier) ==
  CASE tier = "T1" -> "critical"
    [] tier = "T2" -> "high"
    [] tier = "T3" -> "medium"
    [] tier = "T4" -> "high"
    [] tier = "T5" -> "warning"

\* C20: every event returned by Classify, ClassifyPSIEvent, ClassifySMARTEvent
\* or ClassifyGPUEvent has a tier among T1..T5 and the severity of that tier:
\* T1 critical, T2 high, T3 medium, T4 high, T5 warning.
C20_SeverityByTier ==
  \A i \in 1..Len(events) :
    /\ events[i].tier \in {"T1", "T2", "T3", "T4", "T5"}
    /\ events[i].severity = SeverityOf(events[i].tier)

\* C20 witness: Classify has returned a hardware event of severity high for
\* a kernel record.
C20_Witness ==
  /\ called = "Classify"
  /\ events # <<>>
  /\ events[1].tier = "T4"
  /\ events[1].severity = "high"

\* No unit name is found for the record: none leads the message, the UNIT
\* field is absent or empty, and the record's systemd unit is empty.
NoUnitFound(entry) ==
  /\ entry.lead = ""
  /\ (entry.field = <<>> \/ entry.field[1] = "")
  /\ entry.unit = ""

\* C21: every T3 event returned by Classify has a non-empty unit, and a
\* record with the systemd identifier and a matching service-failure pattern
\* for which no unit name is found gets no T3 event.
C21_ServiceFailureHasUnit ==
  called = "Classify" =>
    /\ \A i \in 1..Len(events) : events[i].tier = "T3" => events[i].unit # ""
    /\ (Qualifies("T3", rec) /\ NoUnitFound(rec))
         => \A i \in 1..Len(events) : events[i].tier # "T3"

\* C21 witness: a systemd record with a matching service-failure pattern, an
\* empty UNIT field and no other unit name has been classified, and no event
\* was returned.
C21_Witness ==
  /\ called = "Classify"
  /\ rec.ident = "systemd"
  /\ rec.msg = {"Failed with result"}
  /\ rec.field = <<"">>
  /\ NoUnitFound(rec)
  /\ events = <<>>

\* Enrich took the GPU path for a T4 event exactly when the event's
\* _gpu_event flag is "true".
GpuPathIffFlag ==
  (enriched # NoResult /\ given.tier = "T4") =>
    ((\E i \in 1..Len(enriched.trace) : enriched.trace[i] = "enrichGPU")
       <=> given.gpu_event = "true")

\* C22: a record on the kernel transport or with the kernel identifier whose
\* message matches a GPU pattern, and that no earlier tier takes, is
\* classified as a T4 event with raw_fields["_gpu_event"] = "true"; and
\* Enrich takes the GPU path for a T4 event exactly when that flag is "true".
C22_GpuRecordsFlagged ==
  /\ (/\ called = "Classify"
      /\ rec.ident \in kernelHWIdentifiers \/ rec.transport = "kernel"
      /\ MatchString(gpuPatterns, rec.msg)
      /\ \A i \in 1..3 : ~QualifiesInCode(TierOrder[i], rec))
       => (/\ events # <<>>
           /\ events[1].tier = "T4"
           /\ events[1].gpu_event = "true")
  /\ GpuPathIffFlag

\* The query did not give Enrich anything: the command failed or ran into
\* its deadline, no card was found, or the card's files could not be read.
Failed(query, w) ==
  CASE query = "coredumpctl info" -> w.coredump = "fail"
    [] query = "smartctl" -> w.smart = "fail"
    [] query = "DetectGPUs" -> w.gpus = 0
    [] query = "sysfs" -> w.temp = 0
    [] OTHER -> w.logs = "fail"

\* C23: Enrich returns for every event and every outcome of its queries
\* and changes no field of the event but detail; when every query it issued
\* failed, the event is as it was given.
C23_EnrichOnlyDetail ==
  enriched # NoResult =>
    /\ [enriched.ev EXCEPT !.detail = given.detail] = given
    /\ (\A i \in 1..Len(enriched.trace) :
          enriched.trace[i] \in Queries => Failed(enriched.trace[i], world))
         => enriched.ev = given

\* C23 witness: Enrich has returned for a T1 event with a detail after its
\* kernel log query failed, and the event is as it was given.
C23_Witness ==
  /\ enriched # NoResult
  /\ given.tier = "T1"
  /\ given.detail = <<"message">>
  /\ world.logs = "fail"
  /\ \E i \in 1..Len(enriched.trace) : enriched.trace[i] = "journalctl -k"
  /\ enriched.ev = given

\* C24: for a T2 event whose pid is zero, Enrich issues no query and leaves
\* the detail as it was, whatever the process name.
C24_PidZeroNoQuery ==
  (enriched # NoResult /\ given.tier = "T2" /\ given.pid = 0) =>
    /\ \A i \in 1..Len(enriched.trace) : enriched.trace[i] \notin Queries
    /\ enriched.ev.detail = given.detail

\* C25: a stored row keeps every attribute but notified for as long as it
\* is stored, and no two rows share an id: an Insert with the id of a stored
\* row fails and changes nothing, MarkNotified changes nothing but notified
\* flags, Purge only removes rows, and the step that prefixes the aggregated
\* alert's summary leaves the store as it is.
C25_RowsImmutable ==
  [][/\ \A r \in db : \A q \in db' :
          q.id = r.id => [q EXCEPT !.notified = r.notified] = r
     /\ \A q1, q2 \in db' : q1.id = q2.id => q1 = q2
     /\ (ans'.call = "Insert" /\ \E r \in db : r.id = ans'.arg)
          => (ans'.err /\ db' = db)
     /\ ans'.call = "MarkNotified"
          => {[r EXCEPT !.notified = FALSE] : r \in db'}
               = {[r EXCEPT !.notified = FALSE] : r \in db}
     /\ ans'.call = "Purge" => db' \subseteq db
     /\ ans'.call = "Prefix" => db' = db]_vars

\* C25 witness: the event in hand has got its "[x1]" prefix while its row,
\* marked notified, is stored with the summary it was inserted with, beside
\* another row.
C25_Witness ==
  /\ ans.call = "Prefix"
  /\ Len(hand.summary) = 2
  /\ \E r \in db : r.id = hand.id /\ r.summary = <<"OOM">> /\ r.notified
  /\ Cardinality(db) = 2

\* The events Query should return: inserted with success and not removed
\* by a purge whose cutoff was later than the event's timestamp.
Kept ==
  {e \in inserted : ~((\A r \in db : r.id # e.id) /\ cut[e.id] > e.timestamp)}

\* C26: Query with no bounds and no limit returns every event inserted with
\* success exactly once, except those removed by a Purge whose cutoff was
\* later than the event's timestamp; Count is the number of these events.
C26_QueryReturnsStored ==
  /\ ans.call = "Query" =>
       /\ {ans.rows[i] : i \in 1..Len(ans.rows)} = Kept
       /\ Len(ans.rows) = Cardinality(Kept)
  /\ ans.call = "Count" => ans.n = Cardinality(Kept)

\* The event satisfies every set field of the filter, by time.
Satisfies(e, f) ==
  /\ f.since # 0 => e.timestamp >= f.since
  /\ f.until # 0 => e.timestamp <= f.until
  /\ f.tier # "" => e.tier = f.tier
  /\ f.instance_id # "" => e.instance_id = f.instance_id

\* C27: Query(f) returns exactly the stored events that satisfy every set
\* field of f, each once, ordered by timestamp descending; with a limit
\* L > 0 it returns the L most recent of them.
C27_QueryFiltersAndOrders ==
  ans.call = "Query" =>
    LET f == ans.filter
        q == ans.rows
        M == {e \in {scanEvent(r) : r \in db} : Satisfies(e, f)}
        k == IF f.limit > 0 /\ f.limit < Cardinality(M) THEN f.limit ELSE Cardinality(M)
    IN  /\ Len(q) = k
        /\ \A i \in 1..k : q[i] \in M
        /\ \A i, j \in 1..k : i # j => q[i] # q[j]
        /\ \A i, j \in 1..k : i < j => q[i].timestamp >= q[j].timestamp
        /\ \A e \in M : (\A i \in 1..k : q[i] # e) =>
             \A i \in 1..k : q[i].timestamp >= e.timestamp

\* C28: Purge(d) deletes exactly the stored events whose timestamp is older
\* than now - d, returns the number of rows deleted, and leaves every other
\* row unchanged.
C28_PurgeDeletesOlder ==
  [][ans'.call = "Purge" =>
       /\ db' = {r \in db : ~(ParseTime(r.timestamp) < ans'.arg)}
       /\ ans'.n = Cardinality({r \in db : ParseTime(r.timestamp) < ans'.arg})]_vars

\* C30: while poll runs, on every successful PSI read check attempts to emit
\* an event if and only if some_avg10 > warn_some or full_avg10 > warn_full
\* (strictly); the monitor is in high-frequency mode (inPressure set, the
\* 1 s ticker running) exactly when the last successful read exceeded a
\* threshold; exactly one of the two tickers is running; and a step that ends
\* with a failed read as the last check has sent nothing and has changed
\* neither inPressure nor which ticker runs.
C30_PsiEmitAndMode ==
  /\ [](LET over == \/ checked.stats.SomeAvg10 > psiMon.warnSomeAvg10
                    \/ checked.stats.FullAvg10 > psiMon.warnFullAvg10
        IN /\ (checked.read = "ok") => ((checked.send # "") <=> over)
           /\ (checked.read = "fail") => (checked.send = "")
           /\ polling => /\ inPressure <=> (checked.seen /\ over)
                         /\ highFreqTicker.on <=> inPressure
                         /\ ticker.on <=> ~highFreqTicker.on)
  /\ [][(checked'.read = "fail" /\ polling')
          => /\ inPressure' = inPressure
             /\ ticker'.on = ticker.on
             /\ highFreqTicker'.on = highFreqTicker.on
             /\ Len(psiCh') <= Len(psiCh)]_vars

\* C30 witness: in high-frequency mode, with an event in the channel from a
\* read above the threshold, the last check was a failed read.
C30_Witness ==
  /\ polling
  /\ checked.read = "fail"
  /\ checked.seen
  /\ inPressure
  /\ highFreqTicker.on
  /\ ~ticker.on
  /\ psiCh # <<>>

\* The events handleEvent has returned from with a successful Insert.
StoredBefore == {log[i].ev.id : i \in {j \in 1..Len(log) : ~log[j].call.insertErr}}

\* The calls handleEvent has made for the event in hand when it is at step p.
StepsDone(p, c) ==
  CASE p \in {"enrich", "insert"} -> c = NoCall
    [] p = "cooldown" -> c.inserts = 1 /\ c.cooldowns = 0 /\ c.reports = 0 /\ c.marks = 0
    [] p = "report"   -> c.inserts = 1 /\ c.cooldowns = 1 /\ c.reports = 0 /\ c.marks = 0
    [] p = "mark"     -> c.inserts = 1 /\ c.cooldowns = 1 /\ c.reports = 1 /\ c.marks = 0
    [] OTHER          -> TRUE

\* The order of handleEvent's steps.
StepOrder ==
  { <<"idle", "enrich">>, <<"enrich", "insert">>, <<"insert", "cooldown">>,
    <<"cooldown", "report">>, <<"cooldown", "idle">>, <<"report", "mark">>,
    <<"report", "idle">>, <<"mark", "idle">> }

\* C29: run handles one event at a time: the event in hand changes only when
\* handleEvent is entered from the idle loop, its steps follow the order
\* enrich, insert, cooldown check, notify, mark notified, each taken once,
\* before handleEvent returns; the store changes in the driver's insert and
\* mark-notified steps only, whatever the supervisor and the monitors do
\* meanwhile; and when the cooldown check of an event runs, the row of every
\* earlier event whose Insert succeeded is in the store.
C29_OneEventAtATime ==
  /\ []StepsDone(pc, cur)
  /\ [][/\ (ev' # ev) => (pc = "idle" /\ pc' = "enrich")
        /\ (pc' # pc) => (<<pc, pc'>> \in StepOrder)
        /\ (store' # store) => \/ pc = "insert" /\ pc' = "cooldown"
                               \/ pc = "mark" /\ pc' = "idle"
        /\ (pc = "cooldown" /\ pc' # pc)
             => \A i \in StoredBefore : \E r \in store : r.id = i]_vars

\* C29 witness: the second event has passed its cooldown check with the first
\* event's row in the store, while an event of a monitor waits in its channel.
C29_Witness ==
  /\ pc = "report"
  /\ ev.id = 2
  /\ Len(log) = 1
  /\ 1 \in StoredBefore
  /\ \E r \in store : r.id = 1
  /\ \E m \in Monitors : monCh[m] > 0

\* C34: the text the store keeps for a timestamp preserves the order of the
\* instants: of two stored events, the one whose instant is earlier has the
\* smaller timestamp text, which is what ORDER BY and the bounds of Query,
\* Purge and CheckCooldown compare.
C34_TextOrderIsTimeOrder ==
  \A r1, r2 \in db :
    (ParseTime(r1.timestamp) < ParseTime(r2.timestamp))
      => TextLess(r1.timestamp, r2.timestamp)

\* C35: an event for which an HTTP notification has been sent is in the store.
C35_NotifiedIsStored ==
  \A i \in EventIds : (posts[i] > 0) => \E r \in store : r.id = i

\* C37: at most one session started by the supervisor is live (started and
\* not yet stopped): a session is started only when no session was started
\* before or the previous one has had Stop called, the supervisor holds an
\* unstopped session only inside its forwarding loop, and when the
\* supervisor's goroutine returns every session it started has been stopped.
C37_OneLiveSession ==
  /\ []((supPc \notin {"recv", "send"}) => (sessions = 0 \/ sess.stopped))
  /\ [][/\ (sessions' # sessions) => (sessions = 0 \/ sess.stopped)
        /\ (supPc' = "done" /\ supPc # "done") => (sessions' = 0 \/ sess'.stopped)]_vars

\* C37 witness: the supervisor has returned after its second session, which
\* it stopped.
C37_Witness ==
  /\ supPc = "done"
  /\ sessions = 2
  /\ sess.stopped

\* The device the next iteration of checkAll's loop queries was given an
\* event for, or not: the conditions of the claim, on the status before.
SmartDue(prev, status) ==
  \/ ~prev.seen
  \/ prev.status.Healthy # status.Healthy
  \/ prev.status.ReallocCount # status.ReallocCount
  \/ prev.status.PendCount # status.PendCount
  \/ prev.status.ErrorCount # status.ErrorCount
  \/ ~status.Healthy
  \/ status.ReallocCount > 0
  \/ status.PendCount > 0

\* C31: on each successful query of a device checkAll attempts to emit an
\* event exactly when the device has no entry in lastStatus, or its health or
\* one of its reallocated, pending and error counters differs from the entry,
\* or the status is failing, or the reallocated or pending count is not zero;
\* the event's Changed flag is true exactly in the first two cases.
C31_SmartEmitsWhenDue ==
  [][(smartPc = "loop" /\ devices' # devices /\ ~queried'.err)
       => LET prev == lastStatus[Head(devices)]
              status == queried'.status
          IN /\ (queried'.send # "") <=> SmartDue(prev, status)
             /\ (queried'.send # "")
                  => (queried'.Changed <=>
                        \/ ~prev.seen
                        \/ prev.status.Healthy # status.Healthy
                        \/ prev.status.ReallocCount # status.ReallocCount
                        \/ prev.status.PendCount # status.PendCount
                        \/ prev.status.ErrorCount # status.ErrorCount)]_vars

\* C31 witness: with every device in lastStatus, the last query returned a
\* healthy status whose only non-zero counter is the error counter, and the
\* event, with Changed set, was sent.
C31_Witness ==
  /\ queried.send = "sent"
  /\ queried.Changed
  /\ queried.status.Healthy
  /\ queried.status.ErrorCount = 1
  /\ \E d \in SmartDevices : lastStatus[d] = [seen |-> TRUE, status |-> queried.status]
  /\ \A d \in SmartDevices : lastStatus[d].seen

\* C36: while the context is not cancelled, an iteration of checkAll's loop
\* whose query succeeded leaves the queried status in lastStatus for the
\* device, whether the event was sent, dropped on a full channel or not due;
\* an iteration whose query failed leaves lastStatus as it was.
C36_LastStatusFollowsQuery ==
  [][(smartPc = "loop" /\ devices' # devices)
       => IF queried'.err
            THEN lastStatus' = lastStatus
            ELSE ~smartCtx =>
                   /\ queried'.send \in {"", "sent", "dropped"}
                   /\ lastStatus' = [lastStatus EXCEPT ![Head(devices)] =
                                       [seen |-> TRUE, status |-> queried'.status]]]_vars

\* C36 witness: the event of a query was dropped on the full channel and the
\* status is in lastStatus all the same.
C36_Witness ==
  /\ ~smartCtx
  /\ queried.send = "dropped"
  /\ \E d \in SmartDevices : lastStatus[d] = [seen |-> TRUE, status |-> queried.status]


\* The claim's condition for a thermal_warning, in the claim's words.
ThermalCondition(st, m) == st.Temperature > 0 /\ st.Temperature >= m.tempWarn

\* The claim's condition for a vram_high, in the claim's words.
VramCondition(st, m) ==
  /\ st.VRAMTotal > 0
  /\ st.VRAMUsed > 0
  /\ (st.VRAMUsed * 100) \div st.VRAMTotal >= m.vramWarnPct

\* A select of checkAll was reached, whatever it chose.
Attempted(how) == how \in {"sent", "dropped", "cancelled"}

\* checkAll is through with the card in hand.
CardDone == gpuPc \in {"read", "wait", "done"} /\ polled.thermal # ""

\* C32, as stated: on each poll, for the card checked, thermal_warning is
\* attempted iff the temperature is known and at or above temp_warn, and
\* vram_high is attempted iff VRAMTotal > 0, VRAMUsed > 0 and the percentage
\* is at or above vram_warn_pct; every vram_high in the channel has
\* VRAMTotal > 0 and the driver's division never panics.
C32_GpuEmitsIff ==
  /\ (polled.thermal # "")
       => (Attempted(polled.thermal) <=> ThermalCondition(polled.status, gpuMon))
  /\ CardDone => (Attempted(polled.vram) <=> VramCondition(polled.status, gpuMon))
  /\ \A i \in 1..Len(gpuCh) : (gpuCh[i].Reason = "vram_high") => gpuCh[i].VRAMTotal > 0
  /\ ~drvGpu.panic

\* C32, amended: the same, except that a card whose thermal_warning select
\* returned on the cancelled context gets no vram_high check at all: for every
\* other card vram_high is attempted iff its condition holds, and no vram_high
\* is ever attempted when its condition does not hold.
C32_GpuEmitsIffUnlessCancelled ==
  /\ (polled.thermal # "")
       => (Attempted(polled.thermal) <=> ThermalCondition(polled.status, gpuMon))
  /\ (CardDone /\ polled.thermal # "cancelled")
       => (Attempted(polled.vram) <=> VramCondition(polled.status, gpuMon))
  /\ (CardDone /\ polled.thermal = "cancelled") => polled.vram = ""
  /\ Attempted(polled.vram) => VramCondition(polled.status, gpuMon)
  /\ \A i \in 1..Len(gpuCh) : (gpuCh[i].Reason = "vram_high") => gpuCh[i].VRAMTotal > 0
  /\ ~drvGpu.panic

\* C32's case: with thresholds 70 and 90 a card at 69 degrees using 90 of 100
\* got no thermal_warning and a vram_high that was sent, and the driver has
\* computed 90 percent from an earlier vram_high.
C32_Witness ==
  /\ gpuMon.tempWarn = 70
  /\ CardDone
  /\ polled.status = [Temperature |-> 69, VRAMUsed |-> 90, VRAMTotal |-> 100]
  /\ polled.thermal = "none"
  /\ polled.vram = "sent"
  /\ drvGpu = [Reason |-> "vram_high", pct |-> 90, panic |-> FALSE]


\* The events of the given tier among those the digest is built from.
OfTier(tier) == { i \in 1..Len(digestEvents) : digestEvents[i].Tier = tier }

\* The events with the given kernel summary.
WithSummary(summary) ==
  { i \in OfTier("T4") : digestEvents[i].Summary = summary }

RECURSIVE SumOver(_, _)
SumOver(m, names) ==
  IF names = {} THEN 0
  ELSE LET n == CHOOSE x \in names : TRUE IN m[n] + SumOver(m, names \ {n})

\* The entries of a rendered breakdown never increase in count.
ByCountDescending(q) == \A i, j \in 1..Len(q) : (i < j) => q[i].count >= q[j].count

\* C33: the digest's count of each tier is the number of input events of the
\* tier; the T1, T2 and T3 breakdowns sum to their tier's count, events with
\* an empty name counted under "unknown"; and every rendered breakdown, the
\* T4 breakdown by unique summary included, is in descending order of count.
C33_DigestCountsAndOrder ==
  rendered.done =>
    /\ digest.OOMKills = Cardinality(OfTier("T1"))
    /\ digest.Crashes = Cardinality(OfTier("T2"))
    /\ digest.ServiceFailures = Cardinality(OfTier("T3"))
    /\ digest.KernelHWErrors = Cardinality(OfTier("T4"))
    /\ digest.MemPressure = Cardinality(OfTier("T5"))
    /\ SumOver(digest.OOMBreakdown, DigestNames) = digest.OOMKills
    /\ SumOver(digest.CrashBreakdown, DigestNames) = digest.Crashes
    /\ SumOver(digest.ServiceBreakdown, DigestNames) = digest.ServiceFailures
    /\ digest.OOMBreakdown["unknown"]
         = Cardinality({ i \in OfTier("T1") : digestEvents[i].Process \in {"", "unknown"} })
    /\ digest.CrashBreakdown["unknown"]
         = Cardinality({ i \in OfTier("T2") : digestEvents[i].Process \in {"", "unknown"} })
    /\ digest.ServiceBreakdown["unknown"]
         = Cardinality({ i \in OfTier("T3") : digestEvents[i].Unit \in {"", "unknown"} })
    /\ ByCountDescending(rendered.OOM)
    /\ ByCountDescending(rendered.Crash)
    /\ ByCountDescending(rendered.Service)
    /\ \A i, j \in 1..Len(rendered.Kernel) :
         (i < j) => Cardinality(WithSummary(rendered.Kernel[i]))
                      >= Cardinality(WithSummary(rendered.Kernel[j]))


\* No producer has been started and no event has been handled.
NothingStarted ==
  /\ supPc = "idle"
  /\ \A m \in Monitors : monPc[m] = "off"
  /\ nextId = 1
  /\ \A h \in DOMAIN handled : handled[h] = 0

\* C38: the retention purge runs at most once, after the store is opened and
\* before any producer is started or any event is handled, and only with a
\* positive retention; while run's loop is running no row leaves the store.
C38_PurgeOnceAtStartup ==
  /\ [](purges <= 1)
  /\ [][/\ (\/ purges' # purges
            \/ \E r \in store : \A q \in store' : q.id # r.id)
             => (/\ drvPc = "purge"
                 /\ cfg.retention > 0
                 /\ purges = 0
                 /\ purges' = 1
                 /\ NothingStarted)
        /\ (drvPc = "select") => (\A r \in store : \E q \in store' : q.id = r.id)]_vars

\* C38's case: with a retention the purge has run once and deleted a row of
\* the earlier run, and run's loop has then stored and notified an event.
C38_Witness ==
  /\ cfg.retention > 0
  /\ purges = 1
  /\ \E r \in EarlierRows : \A q \in store : q.id # r.id
  /\ drvPc = "select"
  /\ \E q \in store : q.id = 1 /\ q.notified

====
